---- MODULE Spec2Model ----
(***************************************************************************)
(* Model of the release-configuration validator (scripts/validate*.py).    *)
(*                                                                         *)
(* Strings are sequences of one-character strings, so that the regular     *)
(* expressions, str.split, int() and sorted() of the code are computed     *)
(* character by character.  Parsed YAML documents are tagged values (see   *)
(* "Parsed document values").  A Python call that can raise returns a      *)
(* record whose field exc names the exception ("" when none is raised).    *)
(***************************************************************************)
EXTENDS Integers, Sequences, FiniteSets, TLC

VARIABLES pc, arg, ret, fs, mem, out

vars == <<pc, arg, ret, fs, mem, out>>

(***************************************************************************)
(* Bounds of the model.                                                    *)
(***************************************************************************)
\* longest string drawn for validate_semver
MaxSemverLen == 6

\* most version keys of a drawn manifest
MaxVersions == 3

\* most matchers of a drawn version entry
MaxMatchers == 2

\* most locale entries of a drawn notes file
MaxLocaleEntries == 2

\* most apps of a drawn configuration
MaxApps == 2

\* the most files of manifests/ in a file tree
MaxManifests == 3

\* the most files that vary in manifests/ or notes/ of a file tree of the
\* runs over manifests and notes
MaxCrossFiles == 2

----------------------------------------------------------------------------
(***************************************************************************)
(* Characters and strings.                                                 *)
(***************************************************************************)
NL == "\n"

DigitChars == <<"0", "1", "2", "3", "4", "5", "6", "7", "8", "9">>

UpperChars == <<"A", "B", "C", "D", "E", "F", "G", "H", "I", "J", "K", "L", "M",
                "N", "O", "P", "Q", "R", "S", "T", "U", "V", "W", "X", "Y", "Z">>

LowerChars == <<"a", "b", "c", "d", "e", "f", "g", "h", "i", "j", "k", "l", "m",
                "n", "o", "p", "q", "r", "s", "t", "u", "v", "w", "x", "y", "z">>

\* the characters of the model in code point order (str comparison, sorted())
CharOrder ==
    <<NL, " ", "'", "+", "-", ".", "/">> \o DigitChars \o <<":">> \o UpperChars
        \o <<"_">> \o LowerChars

Range(f) == {f[i] : i \in DOMAIN f}

Chars == Range(CharOrder)

Ord(c) == CHOOSE i \in DOMAIN CharOrder : CharOrder[i] = c

\* \d of the re module (the ASCII digits; no other decimal digit is in Chars)
ReDigit == Range(DigitChars)

\* [a-z]
ReLower == Range(LowerChars)

\* [a-f0-9]
ReHex == {"a", "b", "c", "d", "e", "f"} \cup ReDigit

\* s < t for str: the first differing character decides, a proper prefix is less
StrLess(s, t) ==
    \/ /\ Len(s) < Len(t)
       /\ \A i \in 1..Len(s) : s[i] = t[i]
    \/ \E k \in 1..Len(s) :
          /\ k <= Len(t)
          /\ \A i \in 1..(k - 1) : s[i] = t[i]
          /\ Ord(s[k]) < Ord(t[k])

\* all strings over alphabet of length at most n
RECURSIVE StringsUpTo(_, _)
StringsUpTo(alphabet, n) ==
    IF n = 0 THEN {<<>>}
    ELSE LET shorter == StringsUpTo(alphabet, n - 1)
         IN  shorter \cup {Append(s, c) : s \in {x \in shorter : Len(x) = n - 1},
                                          c \in alphabet}

\* s.find(t) >= 0
IsSubstring(t, s) ==
    \E i \in 1..(Len(s) - Len(t) + 1) : SubSeq(s, i, i + Len(t) - 1) = t

\* str.split(sep) for a one-character separator
RECURSIVE SplitAt(_, _, _, _)
SplitAt(s, sep, i, cur) ==
    IF i > Len(s) THEN <<cur>>
    ELSE IF s[i] = sep THEN <<cur>> \o SplitAt(s, sep, i + 1, <<>>)
    ELSE SplitAt(s, sep, i + 1, Append(cur, s[i]))

Split(s, sep) == SplitAt(s, sep, 1, <<>>)

\* the whitespace int() strips (of the characters of the model)
PyWhitespace == {NL, " "}

RECURSIVE LStrip(_)
LStrip(s) ==
    IF s # <<>> /\ Head(s) \in PyWhitespace THEN LStrip(Tail(s)) ELSE s

RECURSIVE RStrip(_)
RStrip(s) ==
    IF s # <<>> /\ s[Len(s)] \in PyWhitespace
    THEN RStrip(SubSeq(s, 1, Len(s) - 1)) ELSE s

DigitVal(c) == (CHOOSE i \in DOMAIN DigitChars : DigitChars[i] = c) - 1

RECURSIVE DigitsVal(_)
DigitsVal(s) ==
    IF s = <<>> THEN 0
    ELSE 10 * DigitsVal(SubSeq(s, 1, Len(s) - 1)) + DigitVal(s[Len(s)])

\* int(s) for str: surrounding whitespace is stripped, then decimal digits
\* (signs and underscores do not occur after the patterns of this program)
PyInt(s) ==
    LET t == RStrip(LStrip(s))
    IN  IF t # <<>> /\ \A i \in DOMAIN t : t[i] \in ReDigit
        THEN [exc |-> "", val |-> DigitsVal(t)]
        ELSE [exc |-> "ValueError", val |-> 0]

(***************************************************************************)
(* The re module, for the patterns of this program: a pattern is a         *)
(* sequence of items [cls, lo, hi] (a character class repeated lo..hi      *)
(* times, hi = -1 for no upper limit), anchored by ^ and $.                *)
(***************************************************************************)
ReOne(c) == [cls |-> {c}, lo |-> 1, hi |-> 1]

RePlus(cls) == [cls |-> cls, lo |-> 1, hi |-> -1]

ReTimes(cls, n) == [cls |-> cls, lo |-> n, hi |-> n]

\* the positions after a match of item that starts at position p
ReItemEnds(item, s, p) ==
    {q \in p..(Len(s) + 1) :
        /\ q - p >= item.lo
        /\ item.hi = -1 \/ q - p <= item.hi
        /\ \A i \in p..(q - 1) : s[i] \in item.cls}

RECURSIVE ReEnds(_, _, _)
ReEnds(items, s, starts) ==
    IF items = <<>> THEN starts
    ELSE ReEnds(Tail(items), s,
                UNION {ReItemEnds(Head(items), s, p) : p \in starts})

\* $ without re.MULTILINE: at the end of the string, and also just before a
\* newline that is the last character of the string
ReAtDollar(s, q) ==
    \/ q = Len(s) + 1
    \/ q = Len(s) /\ s[q] = NL

\* re.match(r'^items$', s) is not None
ReMatch(items, s) == \E q \in ReEnds(items, s, {1}) : ReAtDollar(s, q)

----------------------------------------------------------------------------
(***************************************************************************)
(* Parsed document values (what yaml.safe_load returns).                   *)
(* ty: "null", "bool", "int", "float", "str", "bytes", "date", "datetime", *)
(* "list", "map".  s: characters of a str or bytes; n: the number of an    *)
(* int or float, 0/1 of a bool; keys/vals: the keys and values of a map in *)
(* insertion order; vals: the items of a list; t: the time of a date or    *)
(* datetime.                                                               *)
(***************************************************************************)
Val(ty, s, n, keys, vals, t) ==
    [ty |-> ty, s |-> s, n |-> n, keys |-> keys, vals |-> vals, t |-> t]

NoneV == Val("null", <<>>, 0, <<>>, <<>>, <<>>)

StrV(s) == Val("str", s, 0, <<>>, <<>>, <<>>)

BytesV(s) == Val("bytes", s, 0, <<>>, <<>>, <<>>)

IntV(n) == Val("int", <<>>, n, <<>>, <<>>, <<>>)

FloatV(n) == Val("float", <<>>, n, <<>>, <<>>, <<>>)

BoolV(b) == Val("bool", <<>>, IF b THEN 1 ELSE 0, <<>>, <<>>, <<>>)

\* a datetime.date: day number
DateV(day) == Val("date", <<>>, 0, <<>>, <<>>, <<day>>)

\* a datetime.datetime: inst is <<day, second of day>>, the wall clock of a
\* naive value and the UTC instant of an aware one
DatetimeV(inst, aware) ==
    Val("datetime", <<>>, IF aware THEN 1 ELSE 0, <<>>, <<>>, inst)

ListV(vals) == Val("list", <<>>, 0, <<>>, vals, <<>>)

MapV(keys, vals) == Val("map", <<>>, 0, keys, vals, <<>>)

IsStr(v) == v.ty = "str"

IsList(v) == v.ty = "list"

IsDict(v) == v.ty = "map"

\* bool(v)
Truthy(v) ==
    CASE v.ty = "null" -> FALSE
      [] v.ty \in {"bool", "int", "float"} -> v.n # 0
      [] v.ty \in {"str", "bytes"} -> v.s # <<>>
      [] v.ty = "list" -> v.vals # <<>>
      [] v.ty = "map" -> v.keys # <<>>
      [] OTHER -> TRUE

\* type(v).__name__
TypeName(v) ==
    CASE v.ty = "null" -> "NoneType"
      [] v.ty = "map" -> "dict"
      [] OTHER -> v.ty

\* k in d, for a dict d
HasKey(d, k) == \E i \in DOMAIN d.keys : d.keys[i] = k

\* d[k] for a key that is present; d.get(k) is None for one that is not
Get(d, k) ==
    IF HasKey(d, k)
    THEN d.vals[CHOOSE i \in DOMAIN d.keys : d.keys[i] = k]
    ELSE NoneV

\* x in v: TypeError for a value that is no container
Contains(v, x) ==
    CASE v.ty = "map" -> [exc |-> "", val |-> HasKey(v, x)]
      [] v.ty = "list" -> [exc |-> "", val |-> \E i \in DOMAIN v.vals : v.vals[i] = x]
      [] v.ty = "str" ->
            IF x.ty = "str" THEN [exc |-> "", val |-> IsSubstring(x.s, v.s)]
            ELSE [exc |-> "TypeError", val |-> FALSE]
      [] OTHER -> [exc |-> "TypeError", val |-> FALSE]

\* v[k] with a str k: only a dict takes it (a list or a str wants an integer)
Subscript(v, k) ==
    IF v.ty = "map" /\ HasKey(v, k) THEN [exc |-> "", val |-> Get(v, k)]
    ELSE IF v.ty = "map" THEN [exc |-> "KeyError", val |-> NoneV]
    ELSE [exc |-> "TypeError", val |-> NoneV]

----------------------------------------------------------------------------
(***************************************************************************)
(* Primitive validators.                                                   *)
(***************************************************************************)
SemverPattern ==
    <<RePlus(ReDigit), ReOne("."), RePlus(ReDigit), ReOne("."), RePlus(ReDigit)>>

\* re.match raises TypeError for a value that is not a str (bytes against a
\* str pattern too)
validate_semver(version) ==
    IF version.ty \notin {"str"}
    THEN [exc |-> "TypeError", val |-> FALSE]
    ELSE [exc |-> "", val |-> ReMatch(SemverPattern, version.s)]

\* tuple(int(part) for part in version.split('.'))
parse_semver(version) ==
    LET parts == Split(version.s, ".")
        ints == [i \in DOMAIN parts |-> PyInt(parts[i])]
    IN  IF \E i \in DOMAIN ints : ints[i].exc # ""
        THEN [exc |-> "ValueError", val |-> <<>>]
        ELSE [exc |-> "", val |-> [i \in DOMAIN ints |-> ints[i].val]]

\* a < b that also holds for equal tuples
TupleLess_orEqual(a, b) ==
    \/ a = b
    \/ \E k \in 1..Len(a) :
          /\ k <= Len(b)
          /\ \A i \in 1..(k - 1) : a[i] = b[i]
          /\ a[k] < b[k]

\* a < b for tuples of int
TupleLess(a, b) ==
    \/ /\ Len(a) < Len(b)
       /\ \A i \in 1..Len(a) : a[i] = b[i]
    \/ \E k \in 1..Len(a) :
          /\ k <= Len(b)
          /\ \A i \in 1..(k - 1) : a[i] = b[i]
          /\ a[k] < b[k]

TupleLessEq(a, b) == a = b \/ TupleLess(a, b)

\* a == b that holds for no two values: every repeated value is a conflict
PyEq_never(a, b) == FALSE

\* a == b: numbers of different type are equal when their values are
PyEq(a, b) ==
    \/ a = b
    \/ /\ a.ty \in {"bool", "int", "float"}
       /\ b.ty \in {"bool", "int", "float"}
       /\ a.n = b.n

\* a list/dict cannot be hashed: membership in a set or dict raises TypeError
Unhashable(v) == v.ty \in {"list", "map"}

(***************************************************************************)
(* Time.  An instant is <<day, second of day, microsecond>>, day counted   *)
(* from 1970-01-01; instants compare as tuples.                            *)
(***************************************************************************)
IsLeap(y) == (y % 4 = 0 /\ y % 100 # 0) \/ y % 400 = 0

DaysInMonth(y, m) ==
    IF m = 2 THEN (IF IsLeap(y) THEN 29 ELSE 28)
    ELSE IF m \in {4, 6, 9, 11} THEN 30 ELSE 31

\* the day number of the civil date y-m-d
DaysFromCivil(y, m, d) ==
    LET yy == IF m <= 2 THEN y - 1 ELSE y
        era == yy \div 400
        yoe == yy - era * 400
        mp == IF m > 2 THEN m - 3 ELSE m + 9
        doy == (153 * mp + 2) \div 5 + d - 1
        doe == yoe * 365 + yoe \div 4 - yoe \div 100 + doy
    IN  era * 146097 + doe - 719468

\* the instant secs seconds before the instant inst (secs may be negative)
InstMinusSeconds(inst, secs) ==
    LET total == inst[2] - secs
    IN  <<inst[1] + total \div (24 * 3600), total % (24 * 3600), inst[3]>>

\* now - timedelta(days) that subtracts nothing
InstMinusDays_none(inst, days) == inst

InstMinusDays(inst, days) == <<inst[1] - days, inst[2], inst[3]>>

AllDigits(s) == \A i \in DOMAIN s : s[i] \in ReDigit

\* str.replace(old, new) for a one-character old
RECURSIVE Replace(_, _, _)
Replace(s, old, new) ==
    IF s = <<>> THEN <<>>
    ELSE (IF Head(s) = old THEN new ELSE <<Head(s)>>) \o Replace(Tail(s), old, new)

\* the time of day "HH[:MM[:SS]]": ok and seconds of the day
IsoTime(s) ==
    LET n == Len(s)
        shape == /\ n \in {2, 5, 8}
                 /\ \A i \in 1..n : IF i \in {3, 6} THEN s[i] = ":" ELSE s[i] \in ReDigit
        hh == DigitsVal(SubSeq(s, 1, 2))
        mm == IF n >= 5 THEN DigitsVal(SubSeq(s, 4, 5)) ELSE 0
        ss == IF n >= 8 THEN DigitsVal(SubSeq(s, 7, 8)) ELSE 0
    IN  IF shape /\ hh < 24 /\ mm < 60 /\ ss < 60
        THEN [ok |-> TRUE, secs |-> hh * 3600 + mm * 60 + ss]
        ELSE [ok |-> FALSE, secs |-> 0]

\* the UTC offset "HH:MM" after its sign: ok and seconds
IsoOffset(s) ==
    LET shape == /\ Len(s) = 5
                 /\ \A i \in 1..5 : IF i = 3 THEN s[i] = ":" ELSE s[i] \in ReDigit
        secs == DigitsVal(SubSeq(s, 1, 2)) * 3600 + DigitsVal(SubSeq(s, 4, 5)) * 60
    IN  IF shape /\ secs < 24 * 3600
        THEN [ok |-> TRUE, secs |-> secs]
        ELSE [ok |-> FALSE, secs |-> 0]

\* datetime.fromisoformat(s) for the extended format
\* YYYY-MM-DD[*HH[:MM[:SS]][(+|-)HH:MM]]: ok (no ValueError), aware, and the
\* instant (the UTC instant of an aware value, the wall clock of a naive one)
fromisoformat(s) ==
    LET bad == [ok |-> FALSE, aware |-> FALSE, inst |-> <<0, 0, 0>>]
        dateShape ==
            /\ Len(s) >= 10
            /\ \A i \in 1..10 : IF i \in {5, 8} THEN s[i] = "-" ELSE s[i] \in ReDigit
        y == DigitsVal(SubSeq(s, 1, 4))
        m == DigitsVal(SubSeq(s, 6, 7))
        d == DigitsVal(SubSeq(s, 9, 10))
        dateOk == /\ dateShape
                  /\ y >= 1 /\ m \in 1..12 /\ d >= 1 /\ d <= DaysInMonth(y, m)
        day == DaysFromCivil(y, m, d)
        tstr == SubSeq(s, 12, Len(s))
        signs == {i \in DOMAIN tstr : tstr[i] \in {"+", "-"}}
        tzpos == IF signs = {} THEN 0 ELSE CHOOSE i \in signs : \A j \in signs : i <= j
        timestr == IF tzpos = 0 THEN tstr ELSE SubSeq(tstr, 1, tzpos - 1)
        tm == IsoTime(timestr)
        off == IsoOffset(SubSeq(tstr, tzpos + 1, Len(tstr)))
        sign == IF tzpos > 0 /\ tstr[tzpos] = "-" THEN -1 ELSE 1
    IN  IF ~dateOk THEN bad
        ELSE IF Len(s) = 10 THEN [ok |-> TRUE, aware |-> FALSE, inst |-> <<day, 0, 0>>]
        ELSE IF ~tm.ok THEN bad
        ELSE IF tzpos = 0
             THEN [ok |-> TRUE, aware |-> FALSE, inst |-> <<day, tm.secs, 0>>]
        ELSE IF ~off.ok THEN bad
        ELSE [ok |-> TRUE, aware |-> TRUE,
              inst |-> InstMinusSeconds(<<day, tm.secs, 0>>, sign * off.secs)]

\* timestamp.replace('Z', '+00:00'): a str is rewritten; a date or bytes has a
\* replace that rejects these arguments (TypeError); any other value has no
\* replace at all (AttributeError)
ReplaceZ(timestamp) ==
    CASE timestamp.ty = "str" ->
            [exc |-> "", val |-> Replace(timestamp.s, "Z", <<"+", "0", "0", ":", "0", "0">>)]
      [] timestamp.ty \in {"date", "bytes"} -> [exc |-> "TypeError", val |-> <<>>]
      [] OTHER -> [exc |-> "AttributeError", val |-> <<>>]

\* ValueError and AttributeError are caught, TypeError is not
validate_iso8601(timestamp) ==
    IF timestamp.ty = "datetime" THEN [exc |-> "", val |-> TRUE]
    ELSE LET r == ReplaceZ(timestamp)
         IN  IF r.exc = "TypeError" THEN [exc |-> "TypeError", val |-> FALSE]
             ELSE IF r.exc = "AttributeError" THEN [exc |-> "", val |-> FALSE]
             ELSE [exc |-> "", val |-> fromisoformat(r.val).ok]

NoInst == <<>>

\* the aware datetime of a timestamp, a naive one taken as UTC; NoInst is None
parse_iso8601(timestamp) ==
    IF timestamp.ty = "datetime" THEN [exc |-> "", val |-> timestamp.t]
    ELSE LET r == ReplaceZ(timestamp)
             dt == fromisoformat(r.val)
         IN  IF r.exc = "TypeError" THEN [exc |-> "TypeError", val |-> NoInst]
             ELSE IF r.exc = "AttributeError" THEN [exc |-> "", val |-> NoInst]
             ELSE IF ~dt.ok THEN [exc |-> "", val |-> NoInst]
             ELSE [exc |-> "", val |-> dt.inst]

HashLen == 64

\* re.match raises TypeError for a value that is not a str
validate_location_hash(hash_value) ==
    IF hash_value.ty # "str" THEN [exc |-> "TypeError", val |-> FALSE]
    ELSE [exc |-> "", val |-> ReMatch(<<ReTimes(ReHex, HashLen)>>, hash_value.s)]

validate_name(name) ==
    /\ name.ty = "str"
    /\ name.s # <<>>
    /\ ReMatch(<<RePlus(ReLower)>>, name.s)

----------------------------------------------------------------------------
(***************************************************************************)
(* String literals of the program.                                         *)
(***************************************************************************)
s_versions == <<"v", "e", "r", "s", "i", "o", "n", "s">>

s_released_at == <<"r", "e", "l", "e", "a", "s", "e", "d", "_", "a", "t">>

s_matchers == <<"m", "a", "t", "c", "h", "e", "r", "s">>

s_notes == <<"n", "o", "t", "e", "s">>

s_matcher_type == <<"m", "a", "t", "c", "h", "e", "r", "_", "t", "y", "p", "e">>

s_matcher_value == <<"m", "a", "t", "c", "h", "e", "r", "_", "v", "a", "l", "u", "e">>

s_severity == <<"s", "e", "v", "e", "r", "i", "t", "y">>

s_green == <<"g", "r", "e", "e", "n">>

s_yellow == <<"y", "e", "l", "l", "o", "w">>

s_red == <<"r", "e", "d">>

s_default == <<"d", "e", "f", "a", "u", "l", "t">>

s_country == <<"c", "o", "u", "n", "t", "r", "y">>

s_location_hash == <<"l", "o", "c", "a", "t", "i", "o", "n", "_", "h", "a", "s", "h">>

s_apps == <<"a", "p", "p", "s">>

s_name == <<"n", "a", "m", "e">>

s_environments == <<"e", "n", "v", "i", "r", "o", "n", "m", "e", "n", "t", "s">>

s_locales == <<"l", "o", "c", "a", "l", "e", "s">>

s_en_en == <<"e", "n", "-", "e", "n">>

s_yml == <<".", "y", "m", "l">>

StrSet(strs) == {StrV(s) : s \in strs}

SEVERITY_VALUES == StrSet({s_green, s_yellow, s_red})

MATCHER_TYPES == StrSet({s_default, s_country, s_location_hash})

ALLOWED_VERSION_FIELDS == StrSet({s_released_at, s_matchers, s_notes})

ALLOWED_MATCHER_FIELDS == StrSet({s_matcher_type, s_matcher_value, s_severity})

MAX_AGE_DAYS == 365

VALID_COUNTRIES ==
    StrSet({<<"U", "S">>, <<"G", "B">>, <<"D", "E">>, <<"F", "R">>, <<"I", "T">>, <<"E", "S">>, <<"N", "L">>, <<"B", "E">>,
            <<"A", "T">>, <<"C", "H">>, <<"P", "L">>, <<"C", "Z">>, <<"S", "K">>, <<"H", "U">>, <<"R", "O">>, <<"B", "G">>,
            <<"H", "R">>, <<"S", "I">>, <<"S", "E">>, <<"N", "O">>, <<"D", "K">>, <<"F", "I">>, <<"I", "E">>, <<"P", "T">>,
            <<"G", "R">>, <<"L", "U">>, <<"E", "E">>, <<"L", "V">>, <<"L", "T">>, <<"C", "Y">>, <<"M", "T">>, <<"I", "S">>})

----------------------------------------------------------------------------
(***************************************************************************)
(* Files and error lists.  A file is [st, doc]: st is "ok" with the parsed *)
(* document doc, "yamlerror" when yaml.safe_load raises YAMLError, or      *)
(* "ioerror" when the file cannot be opened or read.  An error is the      *)
(* message of the code with the values formatted into it: args in order,   *)
(* tn a type name.                                                         *)
(***************************************************************************)
FileOk(doc) == [st |-> "ok", doc |-> doc]

FileYamlError == [st |-> "yamlerror", doc |-> NoneV]

FileIoError == [st |-> "ioerror", doc |-> NoneV]

Err(msg, args) == [msg |-> msg, args |-> args, tn |-> ""]

ErrType(msg, args, tn) == [msg |-> msg, args |-> args, tn |-> tn]

Return(val) == [exc |-> "", val |-> val]

Raise(exc) == [exc |-> exc, val |-> <<>>]

\* the result r of a call inside a function: an exception raised by the call
\* leaves the function, a returned value goes on to the rest of its body
Bind(r, Rest(_)) == IF r.exc # "" THEN Raise(r.exc) ELSE Rest(r.val)

\* a local variable: the rest of the body, with the variable bound to v
Local(v, Rest(_)) == Rest(v)

\* sorted(strs) for a set of str values
RECURSIVE Sorted(_)
Sorted(strs) ==
    IF strs = {} THEN <<>>
    ELSE LET least == CHOOSE x \in strs : \A y \in strs \ {x} : StrLess(x.s, y.s)
         IN  <<least>> \o Sorted(strs \ {least})

\* d[k] = v for a dict d
DictPut(d, k, v) ==
    IF HasKey(d, k)
    THEN LET i == CHOOSE j \in DOMAIN d.keys : d.keys[j] = k
         IN  MapV(d.keys, [d.vals EXCEPT ![i] = v])
    ELSE MapV(Append(d.keys, k), Append(d.vals, v))

----------------------------------------------------------------------------
(***************************************************************************)
(* validate_manifest.py                                                    *)
(***************************************************************************)
\* parse_semver(version) <= parse_semver(prev_version), compared as strings
SemverNotAfter_str(version, prev_version) ==
    Return(version.s = prev_version.s \/ StrLess(version.s, prev_version.s))

\* parse_semver(version) <= parse_semver(prev_version)
SemverNotAfter(version, prev_version) ==
    Bind(parse_semver(version), LAMBDA cur :
    Bind(parse_semver(prev_version), LAMBDA prev :
    Return(TupleLessEq(cur, prev))))

\* the loop over version_list: format and ascending order
RECURSIVE VersionOrderLoop(_, _, _, _)
VersionOrderLoop(version_list, i, errors, valid_versions) ==
    IF i > Len(version_list) THEN Return(errors)
    ELSE
      Local(version_list[i], LAMBDA version :
      Bind(validate_semver(version), LAMBDA ok :
        IF ~ok
        THEN VersionOrderLoop(version_list, i + 1,
                 Append(errors, Err("Invalid semantic version format: {version}",
                                    <<version>>)),
                 valid_versions)
        ELSE
          Local(Append(valid_versions, version), LAMBDA appended :
            IF Len(appended) > 1
            THEN Local(appended[Len(appended) - 1], LAMBDA prev_version :
                 Bind(SemverNotAfter(version, prev_version), LAMBDA not_after :
                   VersionOrderLoop(version_list, i + 1,
                       IF not_after
                       THEN Append(errors,
                                Err("Versions not in ascending order: {prev_version} -> {version}",
                                    <<prev_version, version>>))
                       ELSE errors,
                       appended)))
            ELSE VersionOrderLoop(version_list, i + 1, errors, appended))))

\* set(d.keys()) - allowed and ', '.join(sorted(...)): the error for extra
\* fields, if any; sorted or join raises TypeError for a key that is no str
ExtraFields(d, allowed, msg, version) ==
    LET extra == Range(d.keys) \ allowed
    IN  IF extra = {} THEN Return(<<>>)
        ELSE IF \E k \in extra : k.ty # "str" THEN Raise("TypeError")
        ELSE Return(<<Err(msg, <<version, ListV(Sorted(extra))>>)>>)

\* the checks of a parsed released_at against now and the entry before; st is
\* [errors, prev_released_at, prev_version_for_date]
ReleasedAtChecks(version, released_at, st, now) ==
    LET min_date == InstMinusDays(now, MAX_AGE_DAYS)
        future == IF TupleLess(now, released_at)
                  THEN <<Err("Version {version}: released_at is in the future", <<version>>)>>
                  ELSE <<>>
        old == IF TupleLess(released_at, min_date)
               THEN <<Err("Version {version}: released_at is older than 12 months",
                          <<version>>)>>
               ELSE <<>>
        order == IF st.prev_released_at # NoInst
                    /\ TupleLess(released_at, st.prev_released_at)
                 THEN <<Err("Version {version}: released_at is not in chronological order (earlier than {prev_version_for_date})",
                            <<version, st.prev_version_for_date>>)>>
                 ELSE <<>>
    IN  [errors |-> st.errors \o future \o old \o order,
         prev_released_at |-> released_at,
         prev_version_for_date |-> version]

\* the released_at checks of one entry
ReleasedAt(version, details, st, now) ==
    IF ~HasKey(details, StrV(s_released_at))
    THEN Return([st EXCEPT !.errors =
            Append(@, Err("Version {version}: missing 'released_at'", <<version>>))])
    ELSE
      Local(Get(details, StrV(s_released_at)), LAMBDA released :
      Bind(validate_iso8601(released), LAMBDA valid :
        IF ~valid
        THEN Return([st EXCEPT !.errors =
                Append(@, Err("Version {version}: invalid ISO 8601 timestamp", <<version>>))])
        ELSE Bind(parse_iso8601(released), LAMBDA released_at :
               IF released_at = NoInst THEN Return(st)
               ELSE Return(ReleasedAtChecks(version, released_at, st, now)))))

\* the country branch of one matcher: ms with its error or its entry added
CountryMatcher(version, matcher, ms) ==
    LET country == Get(matcher, StrV(s_matcher_value))
        prev_severity == Get(ms.country_matchers, country)
        curr_severity == Get(matcher, StrV(s_severity))
    IN  IF ~Truthy(country)
        THEN Return([ms EXCEPT !.errors =
                Append(@, Err("Version {version}: invalid country code '{country}'",
                              <<version, country>>))])
        ELSE IF Unhashable(country) THEN Raise("TypeError")
        ELSE IF country \notin VALID_COUNTRIES
        THEN Return([ms EXCEPT !.errors =
                Append(@, Err("Version {version}: invalid country code '{country}'",
                              <<version, country>>))])
        ELSE IF HasKey(ms.country_matchers, country)
        THEN IF ~PyEq(prev_severity, curr_severity)
             THEN Return([ms EXCEPT !.errors =
                     Append(@, Err("Version {version}: conflicting country matchers for '{country}' with different severities",
                                   <<version, country>>))])
             ELSE Return([ms EXCEPT !.errors =
                     Append(@, Err("Version {version}: duplicate country matcher for '{country}'",
                                   <<version, country>>))])
        ELSE Return([ms EXCEPT !.country_matchers = DictPut(@, country, curr_severity)])

\* the location_hash branch of one matcher
LocationHashMatcher(version, matcher, ms) ==
    LET hash_val == Get(matcher, StrV(s_matcher_value))
        prev_severity == Get(ms.location_hash_matchers, hash_val)
        curr_severity == Get(matcher, StrV(s_severity))
    IN  IF ~Truthy(hash_val)
        THEN Return([ms EXCEPT !.errors =
                Append(@, Err("Version {version}: invalid location hash format", <<version>>))])
        ELSE
          Bind(validate_location_hash(hash_val), LAMBDA valid :
            IF ~valid
            THEN Return([ms EXCEPT !.errors =
                    Append(@, Err("Version {version}: invalid location hash format",
                                  <<version>>))])
            ELSE IF HasKey(ms.location_hash_matchers, hash_val)
            THEN IF ~PyEq(prev_severity, curr_severity)
                 THEN Return([ms EXCEPT !.errors =
                         Append(@, Err("Version {version}: conflicting location hash matchers with different severities",
                                       <<version>>))])
                 ELSE Return([ms EXCEPT !.errors =
                         Append(@, Err("Version {version}: duplicate location hash matcher",
                                       <<version>>))])
            ELSE Return([ms EXCEPT !.location_hash_matchers =
                            DictPut(@, hash_val, curr_severity)]))

\* the severity check that ends the body of the matcher loop
SeverityCheck(version, matcher, ms) ==
    LET severity == Get(matcher, StrV(s_severity))
    IN  IF Unhashable(severity) THEN Raise("TypeError")
        ELSE IF severity \notin SEVERITY_VALUES
        THEN Return([ms EXCEPT !.errors =
                Append(@, Err("Version {version}: invalid severity '{severity}'",
                              <<version, severity>>))])
        ELSE Return(ms)

\* the body of the matcher loop for one matcher; ms is [errors, has_default,
\* default_count, country_matchers, location_hash_matchers]
MatcherBody(version, matcher, ms) ==
    IF ~IsDict(matcher)
    THEN Return([ms EXCEPT !.errors =
            Append(@, ErrType("Version {version}: matcher must be an object, not {type}",
                              <<version>>, TypeName(matcher)))])
    ELSE
      Bind(ExtraFields(matcher, ALLOWED_MATCHER_FIELDS,
               "Version {version}: matcher has extra fields not allowed: {fields}",
               version), LAMBDA extra :
      Local([ms EXCEPT !.errors = @ \o extra], LAMBDA ms1 :
      Local(Get(matcher, StrV(s_matcher_type)), LAMBDA matcher_type :
        IF Unhashable(matcher_type) THEN Raise("TypeError")
        ELSE IF matcher_type \notin MATCHER_TYPES
        THEN Return([ms1 EXCEPT !.errors =
                Append(@, Err("Version {version}: invalid matcher_type '{matcher_type}'",
                              <<version, matcher_type>>))])
        ELSE
          Local(IF matcher_type = StrV(s_default)
                THEN [ms1 EXCEPT !.has_default = TRUE, !.default_count = @ + 1]
                ELSE ms1, LAMBDA ms2 :
          Bind(IF matcher_type = StrV(s_country)
               THEN CountryMatcher(version, matcher, ms2)
               ELSE Return(ms2), LAMBDA ms3 :
          Bind(IF matcher_type = StrV(s_location_hash)
               THEN LocationHashMatcher(version, matcher, ms3)
               ELSE Return(ms3), LAMBDA ms4 :
          SeverityCheck(version, matcher, ms4)))))))

RECURSIVE MatcherLoop(_, _, _, _)
MatcherLoop(version, matchers, j, ms) ==
    IF j > Len(matchers) THEN Return(ms)
    ELSE Bind(MatcherBody(version, matchers[j], ms), LAMBDA ms1 :
           MatcherLoop(version, matchers, j + 1, ms1))

\* the errors after the matcher loop with the duplicates reported from the
\* third default on
DefaultMatcherErrors_third(version, ms) ==
    (IF ~ms.has_default
     THEN <<Err("Version {version}: missing default matcher", <<version>>)>>
     ELSE <<>>)
    \o (IF ms.default_count > 2
        THEN <<Err("Version {version}: duplicate default matchers ({default_count} found)",
                   <<version, IntV(ms.default_count)>>)>>
        ELSE <<>>)

\* the errors after the matcher loop, for its final state ms
DefaultMatcherErrors(version, ms) ==
    LET missing == IF ~ms.has_default
                   THEN <<Err("Version {version}: missing default matcher", <<version>>)>>
                   ELSE <<>>
        duplicate == IF ms.default_count > 1
                     THEN <<Err("Version {version}: duplicate default matchers ({default_count} found)",
                                <<version, IntV(ms.default_count)>>)>>
                     ELSE <<>>
    IN  missing \o duplicate

\* the matchers checks of one entry: the errors to append
Matchers(version, details) ==
    IF ~HasKey(details, StrV(s_matchers))
    THEN Return(<<Err("Version {version}: missing 'matchers'", <<version>>)>>)
    ELSE
      Local(Get(details, StrV(s_matchers)), LAMBDA matchers :
        IF ~IsList(matchers)
        THEN Return(<<Err("Version {version}: 'matchers' must be a list", <<version>>)>>)
        ELSE
          Bind(MatcherLoop(version, matchers.vals, 1,
                   [errors |-> <<>>, has_default |-> FALSE, default_count |-> 0,
                    country_matchers |-> MapV(<<>>, <<>>),
                    location_hash_matchers |-> MapV(<<>>, <<>>)]), LAMBDA ms :
            Return(ms.errors \o DefaultMatcherErrors(version, ms))))

\* the body of the loop over versions.items() for one entry
EntryBody(version, details, st, now) ==
    IF ~IsDict(details)
    THEN Return([st EXCEPT !.errors =
            Append(@, ErrType("Version {version}: version details must be an object, not {type}",
                              <<version>>, TypeName(details)))])
    ELSE
      Bind(ExtraFields(details, ALLOWED_VERSION_FIELDS,
               "Version {version}: extra fields not allowed: {fields}", version),
           LAMBDA extra :
      Bind(ReleasedAt(version, details, [st EXCEPT !.errors = @ \o extra], now),
           LAMBDA st2 :
      Bind(Matchers(version, details), LAMBDA matcher_errors :
      Return([st2 EXCEPT !.errors = @ \o matcher_errors]))))

RECURSIVE EntryLoop(_, _, _, _)
EntryLoop(versions, i, st, now) ==
    IF i > Len(versions.keys) THEN Return(st.errors)
    ELSE Bind(EntryBody(versions.keys[i], versions.vals[i], st, now), LAMBDA st1 :
           EntryLoop(versions, i + 1, st1, now))

\* validate_manifest(filepath) of validate_manifest.py, for the file at
\* filepath and the time now that datetime.now(timezone.utc) returns
validate_manifest(file, now) ==
    IF file.st = "yamlerror" THEN Return(<<Err("YAML syntax error: {e}", <<>>)>>)
    ELSE IF file.st = "ioerror" THEN Return(<<Err("Error reading file: {e}", <<>>)>>)
    ELSE IF ~Truthy(file.doc) THEN Return(<<Err("Missing 'versions' key", <<>>)>>)
    ELSE
      Bind(Contains(file.doc, StrV(s_versions)), LAMBDA has :
        IF ~has THEN Return(<<Err("Missing 'versions' key", <<>>)>>)
        ELSE
          Bind(Subscript(file.doc, StrV(s_versions)), LAMBDA versions :
            IF ~Truthy(versions) THEN Return(<<Err("No versions defined", <<>>)>>)
            ELSE IF ~IsDict(versions)
            THEN Return(<<Err("'versions' must be a dictionary, not a list or other type",
                              <<>>)>>)
            ELSE
              Bind(VersionOrderLoop(versions.keys, 1, <<>>, <<>>), LAMBDA errors :
                EntryLoop(versions, 1,
                    [errors |-> errors, prev_released_at |-> NoInst,
                     prev_version_for_date |-> NoneV], now))))

----------------------------------------------------------------------------
(***************************************************************************)
(* validate_notes.py                                                       *)
(***************************************************************************)
NOTES_MIN_LENGTH == 1

NOTES_MAX_LENGTH == 500

\* another locale as the required one
REQUIRED_LOCALE_other == StrV(<<"d", "e", "-", "d", "e">>)

REQUIRED_LOCALE == StrV(s_en_en)

\* checks of the notes field that reject notes of NOTES_MAX_LENGTH characters
NotesField_below(entry, locale_name) ==
    LET notes == Get(entry, StrV(s_notes))
        notes_length == Len(notes.s)
    IN  IF notes.ty = "null"
        THEN <<Err("Locale '{locale_name}': missing 'notes' field", <<locale_name>>)>>
        ELSE IF ~IsStr(notes)
        THEN <<Err("Locale '{locale_name}': 'notes' must be a string", <<locale_name>>)>>
        ELSE IF notes_length < NOTES_MIN_LENGTH
        THEN <<Err("Locale '{locale_name}': notes cannot be empty", <<locale_name>>)>>
        ELSE IF notes_length >= NOTES_MAX_LENGTH
        THEN <<Err("Locale '{locale_name}': notes exceeds {NOTES_MAX_LENGTH} characters ({notes_length})",
                   <<locale_name, IntV(notes_length)>>)>>
        ELSE <<>>

\* the checks of the notes field of one entry: the errors to append
NotesField(entry, locale_name) ==
    LET notes == Get(entry, StrV(s_notes))
        notes_length == Len(notes.s)
    IN  IF notes.ty = "null"
        THEN <<Err("Locale '{locale_name}': missing 'notes' field", <<locale_name>>)>>
        ELSE IF ~IsStr(notes)
        THEN <<Err("Locale '{locale_name}': 'notes' must be a string", <<locale_name>>)>>
        ELSE IF notes_length < NOTES_MIN_LENGTH
        THEN <<Err("Locale '{locale_name}': notes cannot be empty", <<locale_name>>)>>
        ELSE IF notes_length > NOTES_MAX_LENGTH
        THEN <<Err("Locale '{locale_name}': notes exceeds {NOTES_MAX_LENGTH} characters ({notes_length})",
                   <<locale_name, IntV(notes_length)>>)>>
        ELSE <<>>

\* the body of the loop over the locale entries for entry number i (from 0);
\* ls is [errors, seen_locales, has_required_locale]
LocaleBody(i, entry, ls, valid_locales) ==
    LET locale_name == Get(entry, StrV(s_name))
        duplicate == IF locale_name \in ls.seen_locales
                     THEN <<Err("Duplicate locale entry: {locale_name}", <<locale_name>>)>>
                     ELSE <<>>
        undefined == IF locale_name \notin valid_locales
                     THEN <<Err("Locale '{locale_name}' not defined in config.yml",
                                <<locale_name>>)>>
                     ELSE <<>>
    IN  IF ~IsDict(entry)
        THEN [ls EXCEPT !.errors =
                Append(@, Err("Locale entry {i}: must be an object", <<IntV(i)>>))]
        ELSE IF ~Truthy(locale_name)
        THEN [ls EXCEPT !.errors =
                Append(@, Err("Locale entry {i}: missing 'name' field", <<IntV(i)>>))]
        ELSE IF ~IsStr(locale_name)
        THEN [ls EXCEPT !.errors =
                Append(@, Err("Locale entry {i}: 'name' must be a string", <<IntV(i)>>))]
        ELSE [errors |-> ls.errors \o duplicate \o undefined
                            \o NotesField(entry, locale_name),
              seen_locales |-> ls.seen_locales \cup {locale_name},
              has_required_locale |->
                  ls.has_required_locale \/ locale_name = REQUIRED_LOCALE]

\* a loop over the locale entries that ends at the first duplicate name
RECURSIVE LocaleLoop_stop(_, _, _, _)
LocaleLoop_stop(locales, i, ls, valid_locales) ==
    IF i > Len(locales) THEN ls
    ELSE LET ls1 == LocaleBody(i - 1, locales[i], ls, valid_locales)
         IN  IF /\ Len(ls1.errors) > Len(ls.errors)
                /\ ls1.errors[Len(ls.errors) + 1].msg = "Duplicate locale entry: {locale_name}"
             THEN [ls1 EXCEPT !.errors = SubSeq(@, 1, Len(ls.errors) + 1)]
             ELSE LocaleLoop_stop(locales, i + 1, ls1, valid_locales)

RECURSIVE LocaleLoop(_, _, _, _)
LocaleLoop(locales, i, ls, valid_locales) ==
    IF i > Len(locales) THEN ls
    ELSE LocaleLoop(locales, i + 1,
                    LocaleBody(i - 1, locales[i], ls, valid_locales), valid_locales)

\* validate_notes_file(filepath, valid_locales) for the file at filepath
validate_notes_file(file, valid_locales) ==
    LET data == file.doc
        has == Contains(data, StrV(s_locales))
        sub == Subscript(data, StrV(s_locales))
        locales == sub.val
        ls == LocaleLoop(locales.vals, 1,
                  [errors |-> <<>>, seen_locales |-> {}, has_required_locale |-> FALSE],
                  valid_locales)
        required == IF ~ls.has_required_locale
                    THEN <<Err("Missing required locale '{REQUIRED_LOCALE}' (needed for fallback)",
                               <<>>)>>
                    ELSE <<>>
    IN  IF file.st = "yamlerror" THEN Return(<<Err("YAML syntax error: {e}", <<>>)>>)
        ELSE IF file.st = "ioerror" THEN Return(<<Err("Error reading file: {e}", <<>>)>>)
        ELSE IF ~Truthy(data) THEN Return(<<Err("Missing 'locales' key", <<>>)>>)
        ELSE IF has.exc # "" THEN Raise(has.exc)
        ELSE IF ~has.val THEN Return(<<Err("Missing 'locales' key", <<>>)>>)
        ELSE IF sub.exc # "" THEN Raise(sub.exc)
        ELSE IF ~IsList(locales) THEN Return(<<Err("'locales' must be a list", <<>>)>>)
        ELSE IF ~Truthy(locales)
        THEN Return(<<Err("At least one locale entry is required", <<>>)>>)
        ELSE Return(ls.errors \o required)

\* the matches of ^([a-z]+)--(\d+\.\d+\.\d+)\.yml$ on filename: the
\* positions <<after group 1, after group 2>>
NotesFilenameEnds(filename) ==
    UNION {{<<a, b>> :
              b \in {x \in ReEnds(SemverPattern, filename,
                                  ReEnds(<<ReOne("-"), ReOne("-")>>, filename, {a})) :
                        \E q \in ReEnds(<<ReOne("."), ReOne("y"), ReOne("m"), ReOne("l")>>,
                                         filename, {x}) : ReAtDollar(filename, q)}} :
           a \in ReEnds(<<RePlus(ReLower)>>, filename, {1})}

\* the groups of the match of ^([a-z]+)--(\d+\.\d+\.\d+)\.yml$ with the app
\* and the version swapped
validate_notes_filename_swapped(filename) ==
    LET ends == NotesFilenameEnds(filename)
        e == CHOOSE x \in ends : TRUE
    IN  IF ends = {} THEN [app_name |-> NoneV, version |-> NoneV]
        ELSE [app_name |-> StrV(SubSeq(filename, e[1] + 2, e[2] - 1)),
              version |-> StrV(SubSeq(filename, 1, e[1] - 1))]

\* validate_notes_filename(filename): the groups of the match of
\* ^([a-z]+)--(\d+\.\d+\.\d+)\.yml$, or (None, None); ends holds the
\* positions after group 1 and after group 2 of a match
validate_notes_filename(filename) ==
    LET ends == NotesFilenameEnds(filename)
        e == CHOOSE x \in ends : TRUE
    IN  IF ends = {} THEN [app_name |-> NoneV, version |-> NoneV]
        ELSE [app_name |-> StrV(SubSeq(filename, 1, e[1] - 1)),
              version |-> StrV(SubSeq(filename, e[1] + 2, e[2] - 1))]

----------------------------------------------------------------------------
(***************************************************************************)
(* validate_config.py                                                      *)
(***************************************************************************)
\* f"{app_name}--{env}.yml"
ManifestFilename(app_name, env) == app_name \o <<"-", "-">> \o env \o s_yml

\* the loop over the environments of one app; es is [errors, seen_envs,
\* expected_files]
RECURSIVE EnvLoop(_, _, _, _)
EnvLoop(app_name, envs, j, es) ==
    IF j > Len(envs) THEN es
    ELSE
      LET env == envs[j]
      IN  IF ~validate_name(env)
          THEN EnvLoop(app_name, envs, j + 1,
                   [es EXCEPT !.errors =
                       Append(@, Err("config.yml: invalid environment '{env}' in app '{app_name}' (must be lowercase letters only)",
                                     <<env, app_name>>))])
          ELSE IF env \in es.seen_envs
          THEN EnvLoop(app_name, envs, j + 1,
                   [es EXCEPT !.errors =
                       Append(@, Err("config.yml: duplicate environment '{env}' in app '{app_name}'",
                                     <<env, app_name>>))])
          ELSE EnvLoop(app_name, envs, j + 1,
                   [es EXCEPT !.seen_envs = @ \cup {env},
                              !.expected_files = @ \cup {ManifestFilename(app_name.s, env.s)}])

\* the body of the loop over apps for the app at index i (from 0); cs is
\* [errors, expected_files, app_names]
AppBody(i, app, cs) ==
    LET app_name == Get(app, StrV(s_name))
        envs == Get(app, StrV(s_environments))
        es == EnvLoop(app_name, envs.vals, 1,
                  [errors |-> cs.errors, seen_envs |-> {},
                   expected_files |-> cs.expected_files])
        fail(e) == [cs EXCEPT !.errors = Append(@, e)]
        named == [cs EXCEPT !.app_names = @ \cup {app_name}]
    IN  IF ~IsDict(app)
        THEN fail(Err("config.yml: app at index {i} must be an object", <<IntV(i)>>))
        ELSE IF ~HasKey(app, StrV(s_name))
        THEN fail(Err("config.yml: app at index {i} missing 'name'", <<IntV(i)>>))
        ELSE IF ~validate_name(app_name)
        THEN fail(Err("config.yml: invalid app name '{app_name}' (must be lowercase letters only)",
                      <<app_name>>))
        ELSE IF app_name \in cs.app_names
        THEN fail(Err("config.yml: duplicate app name '{app_name}'", <<app_name>>))
        ELSE IF ~HasKey(app, StrV(s_environments))
        THEN [named EXCEPT !.errors =
                Append(@, Err("config.yml: app '{app_name}' missing 'environments'",
                              <<app_name>>))]
        ELSE IF ~IsList(envs) \/ ~Truthy(envs)
        THEN [named EXCEPT !.errors =
                Append(@, Err("config.yml: app '{app_name}' environments must be a non-empty list",
                              <<app_name>>))]
        ELSE [errors |-> es.errors, expected_files |-> es.expected_files,
              app_names |-> named.app_names]

\* a loop over apps that ends at the first duplicate app name
RECURSIVE AppLoop_stop(_, _, _)
AppLoop_stop(apps, i, cs) ==
    IF i > Len(apps) THEN cs
    ELSE LET cs1 == AppBody(i - 1, apps[i], cs)
         IN  IF /\ Len(cs1.errors) > Len(cs.errors)
                /\ cs1.errors[Len(cs1.errors)].msg = "config.yml: duplicate app name '{app_name}'"
             THEN cs1
             ELSE AppLoop_stop(apps, i + 1, cs1)

RECURSIVE AppLoop(_, _, _)
AppLoop(apps, i, cs) ==
    IF i > Len(apps) THEN cs
    ELSE AppLoop(apps, i + 1, AppBody(i - 1, apps[i], cs))

\* a loop over config['locales'] that takes every item as a locale
ConfigLocaleLoop_all(config_locales, k, lc) ==
    [lc EXCEPT !.locales = {config_locales[i] : i \in DOMAIN config_locales}]

\* the loop over config['locales']; lc is [errors, locales]
RECURSIVE ConfigLocaleLoop(_, _, _)
ConfigLocaleLoop(config_locales, k, lc) ==
    IF k > Len(config_locales) THEN lc
    ELSE
      LET locale == config_locales[k]
      IN  IF ~IsStr(locale) \/ ~Truthy(locale)
          THEN ConfigLocaleLoop(config_locales, k + 1,
                   [lc EXCEPT !.errors =
                       Append(@, Err("config.yml: invalid locale '{locale}' (must be a non-empty string)",
                                     <<locale>>))])
          ELSE IF locale \in lc.locales
          THEN ConfigLocaleLoop(config_locales, k + 1,
                   [lc EXCEPT !.errors =
                       Append(@, Err("config.yml: duplicate locale '{locale}'", <<locale>>))])
          ELSE ConfigLocaleLoop(config_locales, k + 1,
                   [lc EXCEPT !.locales = @ \cup {locale}])

\* the locales section: [errors, locales] after it
ConfigLocales(config, errors) ==
    LET config_locales == Get(config, StrV(s_locales))
        lc == ConfigLocaleLoop(config_locales.vals, 1, [errors |-> errors, locales |-> {}])
    IN  IF ~HasKey(config, StrV(s_locales))
        THEN [errors |-> Append(errors, Err("config.yml: missing 'locales' key", <<>>)),
              locales |-> {}]
        ELSE IF ~IsList(config_locales) \/ ~Truthy(config_locales)
        THEN [errors |-> Append(errors,
                             Err("config.yml: 'locales' must be a non-empty list", <<>>)),
              locales |-> {}]
        ELSE IF REQUIRED_LOCALE \notin lc.locales
        THEN [lc EXCEPT !.errors =
                Append(@, Err("config.yml: missing required locale '{REQUIRED_LOCALE}'", <<>>))]
        ELSE lc

ConfigResult(expected_files, app_names, locales, errors) ==
    [expected_files |-> expected_files, app_names |-> app_names,
     locales |-> locales, errors |-> errors]

\* validate_config(config) of validate_config.py: expected_files (the set the
\* returned list is made of), app_names, locales and errors
validate_config(config) ==
    LET has == Contains(config, StrV(s_apps))
        sub == Subscript(config, StrV(s_apps))
        apps == sub.val
        cs == AppLoop(apps.vals, 1, [errors |-> <<>>, expected_files |-> {}, app_names |-> {}])
        lc == ConfigLocales(config, cs.errors)
        missing == ConfigResult({}, {}, {}, <<Err("config.yml: missing 'apps' key", <<>>)>>)
    IN  IF ~Truthy(config) THEN Return(missing)
        ELSE IF has.exc # "" THEN Raise(has.exc)
        ELSE IF ~has.val THEN Return(missing)
        ELSE IF sub.exc # "" THEN Raise(sub.exc)
        ELSE IF ~IsList(apps) \/ ~Truthy(apps)
        THEN Return(ConfigResult({}, {}, {},
                        <<Err("config.yml: 'apps' must be a non-empty list", <<>>)>>))
        ELSE Return(ConfigResult(cs.expected_files, cs.app_names, lc.locales, lc.errors))

----------------------------------------------------------------------------
(***************************************************************************)
(* validate.py: the script with its own validate_config and                *)
(* validate_manifest (named script_... here) and the orchestrator main.    *)
(* Its primitive validators are those of validate_manifest.py, line for     *)
(* line.                                                                   *)
(***************************************************************************)
FileNotFound == [st |-> "notfound", doc |-> NoneV]

NoErr == Err("", <<>>)

\* load_config(): the parsed document and no error, or None and the error
load_config(file) ==
    CASE file.st = "ok" -> [config |-> file.doc, error |-> NoErr]
      [] file.st = "yamlerror" ->
            [config |-> NoneV, error |-> Err("YAML syntax error in config.yml: {e}", <<>>)]
      [] file.st = "notfound" ->
            [config |-> NoneV, error |-> Err("config.yml not found", <<>>)]
      [] OTHER ->
            [config |-> NoneV, error |-> Err("Error reading config.yml: {e}", <<>>)]

\* the loop over the environments of one app; es is [errors, expected_files]
RECURSIVE ScriptEnvLoop(_, _, _, _)
ScriptEnvLoop(app_name, envs, j, es) ==
    IF j > Len(envs) THEN es
    ELSE IF ~validate_name(envs[j])
    THEN ScriptEnvLoop(app_name, envs, j + 1,
             [es EXCEPT !.errors =
                 Append(@, Err("config.yml: invalid environment '{env}' in app '{app_name}' (must be lowercase letters only)",
                               <<envs[j], app_name>>))])
    ELSE ScriptEnvLoop(app_name, envs, j + 1,
             [es EXCEPT !.expected_files =
                 @ \cup {ManifestFilename(app_name.s, envs[j].s)}])

\* the body of the loop over apps for the app at index i (from 0)
ScriptAppBody(i, app, es) ==
    LET app_name == Get(app, StrV(s_name))
        envs == Get(app, StrV(s_environments))
        fail(e) == [es EXCEPT !.errors = Append(@, e)]
    IN  IF ~IsDict(app)
        THEN fail(Err("config.yml: app at index {i} must be an object", <<IntV(i)>>))
        ELSE IF ~HasKey(app, StrV(s_name))
        THEN fail(Err("config.yml: app at index {i} missing 'name'", <<IntV(i)>>))
        ELSE IF ~validate_name(app_name)
        THEN fail(Err("config.yml: invalid app name '{app_name}' (must be lowercase letters only)",
                      <<app_name>>))
        ELSE IF ~HasKey(app, StrV(s_environments))
        THEN fail(Err("config.yml: app '{app_name}' missing 'environments'", <<app_name>>))
        ELSE IF ~IsList(envs) \/ ~Truthy(envs)
        THEN fail(Err("config.yml: app '{app_name}' environments must be a non-empty list",
                      <<app_name>>))
        ELSE ScriptEnvLoop(app_name, envs.vals, 1, es)

RECURSIVE ScriptAppLoop(_, _, _)
ScriptAppLoop(apps, i, es) ==
    IF i > Len(apps) THEN es
    ELSE ScriptAppLoop(apps, i + 1, ScriptAppBody(i - 1, apps[i], es))

\* validate_config(config) of validate.py: expected_files (the set the
\* returned list is made of) and errors
script_validate_config(config) ==
    IF ~Truthy(config)
    THEN Return([expected_files |-> {},
                 errors |-> <<Err("config.yml: missing 'apps' key", <<>>)>>])
    ELSE
      Bind(Contains(config, StrV(s_apps)), LAMBDA has :
        IF ~has
        THEN Return([expected_files |-> {},
                     errors |-> <<Err("config.yml: missing 'apps' key", <<>>)>>])
        ELSE
          Bind(Subscript(config, StrV(s_apps)), LAMBDA apps :
            IF ~IsList(apps) \/ ~Truthy(apps)
            THEN Return([expected_files |-> {},
                         errors |-> <<Err("config.yml: 'apps' must be a non-empty list",
                                          <<>>)>>])
            ELSE Return(ScriptAppLoop(apps.vals, 1,
                            [errors |-> <<>>, expected_files |-> {}]))))

\* the released_at check of one entry: the errors to append
ScriptReleasedAt(version, details) ==
    IF ~HasKey(details, StrV(s_released_at))
    THEN Return(<<Err("Version {version}: missing 'released_at'", <<version>>)>>)
    ELSE
      Bind(validate_iso8601(Get(details, StrV(s_released_at))), LAMBDA valid :
        IF ~valid
        THEN Return(<<Err("Version {version}: invalid ISO 8601 timestamp", <<version>>)>>)
        ELSE Return(<<>>))

\* the country check of one matcher: the errors to append
ScriptCountry(version, matcher) ==
    LET country == Get(matcher, StrV(s_matcher_value))
        invalid == <<Err("Version {version}: invalid country code '{country}'",
                         <<version, country>>)>>
    IN  IF ~Truthy(country) THEN Return(invalid)
        ELSE IF Unhashable(country) THEN Raise("TypeError")
        ELSE IF country \notin VALID_COUNTRIES THEN Return(invalid)
        ELSE Return(<<>>)

\* the location_hash check of one matcher: the errors to append
ScriptLocationHash(version, matcher) ==
    LET hash_val == Get(matcher, StrV(s_matcher_value))
        invalid == <<Err("Version {version}: invalid location hash format", <<version>>)>>
    IN  IF ~Truthy(hash_val) THEN Return(invalid)
        ELSE Bind(validate_location_hash(hash_val), LAMBDA valid :
               IF ~valid THEN Return(invalid) ELSE Return(<<>>))

\* the severity check of one matcher: the errors to append
ScriptSeverity(version, matcher) ==
    LET severity == Get(matcher, StrV(s_severity))
    IN  IF Unhashable(severity) THEN Raise("TypeError")
        ELSE IF severity \notin SEVERITY_VALUES
        THEN Return(<<Err("Version {version}: invalid severity '{severity}'",
                          <<version, severity>>)>>)
        ELSE Return(<<>>)

\* the body of the matcher loop for one matcher; ms is [errors, has_default]
ScriptMatcherBody(version, matcher, ms) ==
    IF ~IsDict(matcher)
    THEN Return([ms EXCEPT !.errors =
            Append(@, ErrType("Version {version}: matcher must be an object, not {type}",
                              <<version>>, TypeName(matcher)))])
    ELSE
      Local(Get(matcher, StrV(s_matcher_type)), LAMBDA matcher_type :
        IF Unhashable(matcher_type) THEN Raise("TypeError")
        ELSE IF matcher_type \notin MATCHER_TYPES
        THEN Return([ms EXCEPT !.errors =
                Append(@, Err("Version {version}: invalid matcher_type '{matcher_type}'",
                              <<version, matcher_type>>))])
        ELSE
          Bind(IF matcher_type = StrV(s_country)
               THEN ScriptCountry(version, matcher) ELSE Return(<<>>), LAMBDA e1 :
          Bind(IF matcher_type = StrV(s_location_hash)
               THEN ScriptLocationHash(version, matcher) ELSE Return(<<>>), LAMBDA e2 :
          Bind(ScriptSeverity(version, matcher), LAMBDA e3 :
          Return([errors |-> ms.errors \o e1 \o e2 \o e3,
                  has_default |-> ms.has_default \/ matcher_type = StrV(s_default)])))))

RECURSIVE ScriptMatcherLoop(_, _, _, _)
ScriptMatcherLoop(version, matchers, j, ms) ==
    IF j > Len(matchers) THEN Return(ms)
    ELSE Bind(ScriptMatcherBody(version, matchers[j], ms), LAMBDA ms1 :
           ScriptMatcherLoop(version, matchers, j + 1, ms1))

\* the matchers checks of one entry: the errors to append
ScriptMatchers(version, details) ==
    IF ~HasKey(details, StrV(s_matchers))
    THEN Return(<<Err("Version {version}: missing 'matchers'", <<version>>)>>)
    ELSE
      Local(Get(details, StrV(s_matchers)), LAMBDA matchers :
        IF ~IsList(matchers)
        THEN Return(<<Err("Version {version}: 'matchers' must be a list", <<version>>)>>)
        ELSE
          Bind(ScriptMatcherLoop(version, matchers.vals, 1,
                   [errors |-> <<>>, has_default |-> FALSE]), LAMBDA ms :
            Return(ms.errors \o
                   (IF ~ms.has_default
                    THEN <<Err("Version {version}: missing default matcher", <<version>>)>>
                    ELSE <<>>))))

\* the body of the loop over versions.items() for one entry: the errors to
\* append
ScriptEntryBody(version, details) ==
    IF ~IsDict(details)
    THEN Return(<<ErrType("Version {version}: version details must be an object, not {type}",
                          <<version>>, TypeName(details))>>)
    ELSE
      Bind(ScriptReleasedAt(version, details), LAMBDA e1 :
      Bind(ScriptMatchers(version, details), LAMBDA e2 :
      Return(e1 \o e2)))

RECURSIVE ScriptEntryLoop(_, _, _)
ScriptEntryLoop(versions, i, errors) ==
    IF i > Len(versions.keys) THEN Return(errors)
    ELSE Bind(ScriptEntryBody(versions.keys[i], versions.vals[i]), LAMBDA e :
           ScriptEntryLoop(versions, i + 1, errors \o e))

\* validate_manifest(filepath) of validate.py, for the file at filepath
script_validate_manifest(file) ==
    IF file.st = "yamlerror" THEN Return(<<Err("YAML syntax error: {e}", <<>>)>>)
    ELSE IF file.st # "ok" THEN Return(<<Err("Error reading file: {e}", <<>>)>>)
    ELSE IF ~Truthy(file.doc) THEN Return(<<Err("Missing 'versions' key", <<>>)>>)
    ELSE
      Bind(Contains(file.doc, StrV(s_versions)), LAMBDA has :
        IF ~has THEN Return(<<Err("Missing 'versions' key", <<>>)>>)
        ELSE
          Bind(Subscript(file.doc, StrV(s_versions)), LAMBDA versions :
            IF ~Truthy(versions) THEN Return(<<Err("No versions defined", <<>>)>>)
            ELSE IF ~IsDict(versions)
            THEN Return(<<Err("'versions' must be a dictionary, not a list or other type",
                              <<>>)>>)
            ELSE
              Bind(VersionOrderLoop(versions.keys, 1, <<>>, <<>>), LAMBDA errors :
                ScriptEntryLoop(versions, 1, errors))))

----------------------------------------------------------------------------
(***************************************************************************)
(* Inputs.  The documents and files the specifications draw: each family   *)
(* varies one part of a document around a valid one.                       *)
(***************************************************************************)
\* all sequences of at most n elements of pool
SeqsUpTo(pool, n) == UNION {[1..k -> pool] : k \in 0..n}

\* those without a repeated element
SeqsOfDistinct(pool, n) ==
    {s \in SeqsUpTo(pool, n) : \A i, j \in DOMAIN s : i # j => s[i] # s[j]}

\* the validation time of the drawn calls: 2026-01-20 12:00:00.5 UTC
Now0 == <<DaysFromCivil(2026, 1, 20), 12 * 3600, 500000>>

\* 2026-01-10 09:00:00 UTC, as the parser makes it of an unquoted timestamp
GoodTime == DatetimeV(<<DaysFromCivil(2026, 1, 10), 9 * 3600, 0>>, TRUE)

Matcher(type, value, severity) ==
    MapV(<<StrV(s_matcher_type), StrV(s_matcher_value), StrV(s_severity)>>,
         <<type, value, severity>>)

GoodMatcher == MapV(<<StrV(s_matcher_type), StrV(s_severity)>>,
                    <<StrV(s_default), StrV(s_green)>>)

Entry(released_at, matchers) ==
    MapV(<<StrV(s_released_at), StrV(s_matchers)>>, <<released_at, matchers>>)

GoodEntry == Entry(GoodTime, ListV(<<GoodMatcher>>))

ManifestDoc(keys, vals) == MapV(<<StrV(s_versions)>>, <<MapV(keys, vals)>>)

v_1_0_0 == StrV(<<"1", ".", "0", ".", "0">>)

v_9_0_0 == StrV(<<"9", ".", "0", ".", "0">>)

v_10_0_0 == StrV(<<"1", "0", ".", "0", ".", "0">>)

VersionKeyPool ==
    {v_1_0_0, v_9_0_0, v_10_0_0, StrV(<<"0", "1", ".", "0", ".", "0">>), StrV(<<"1", ".", "0", ".", "0", "\n">>),
     StrV(<<"a", ".", "b", ".", "c">>), StrV(<<"1", ".", "0">>), IntV(1)}

\* manifests that differ in their version keys
KeyManifests ==
    {ManifestDoc(ks, [i \in DOMAIN ks |-> GoodEntry]) :
        ks \in SeqsOfDistinct(VersionKeyPool, MaxVersions) \ {<<>>}}

GoodHash == StrV([i \in 1..HashLen |-> "a"])

TimePool ==
    {GoodTime,
     DatetimeV(<<DaysFromCivil(2026, 1, 10), 9 * 3600, 0>>, FALSE),
     DatetimeV(<<DaysFromCivil(2026, 1, 21), 0, 0>>, TRUE),
     DatetimeV(<<DaysFromCivil(2024, 1, 10), 0, 0>>, TRUE),
     StrV(<<"2", "0", "2", "6", "-", "0", "1", "-", "1", "0", "T", "0", "9", ":", "0", "0", ":", "0", "0", "Z">>), StrV(<<"2", "0", "2", "6", "-", "0", "1", "-", "1", "0", "T", "0", "9", ":", "0", "0", ":", "0", "0", "+", "0", "1", ":", "0", "0">>),
     StrV(<<"2", "0", "2", "6", "-", "0", "1", "-", "1", "0">>), StrV(<<"i", "n", "v", "a", "l", "i", "d">>), StrV(<<>>),
     DateV(DaysFromCivil(2026, 1, 10)), IntV(123), NoneV, ListV(<<>>),
     BytesV(<<"Z", "m", "9", "v">>)}

MatcherPool ==
    {GoodMatcher,
     MapV(<<StrV(s_matcher_type), StrV(s_severity)>>, <<StrV(s_default), StrV(s_red)>>),
     MapV(<<StrV(s_matcher_type)>>, <<StrV(s_default)>>),
     Matcher(StrV(s_country), StrV(<<"U", "S">>), StrV(s_green)),
     Matcher(StrV(s_country), StrV(<<"U", "S">>), StrV(s_red)),
     Matcher(StrV(s_country), StrV(<<"X", "X">>), StrV(s_green)),
     Matcher(StrV(s_country), ListV(<<StrV(<<"U", "S">>)>>), StrV(s_green)),
     Matcher(StrV(s_country), NoneV, StrV(s_green)),
     Matcher(StrV(s_location_hash), GoodHash, StrV(s_green)),
     Matcher(StrV(s_location_hash), GoodHash, StrV(s_yellow)),
     Matcher(StrV(s_location_hash), StrV(<<"a", "b", "c">>), StrV(s_green)),
     Matcher(StrV(s_location_hash), IntV(5), StrV(s_green)),
     Matcher(StrV(<<"b", "o", "g", "u", "s">>), NoneV, StrV(s_green)),
     Matcher(ListV(<<>>), NoneV, StrV(s_green)),
     Matcher(StrV(s_default), NoneV, ListV(<<StrV(s_green)>>)),
     MapV(<<StrV(s_matcher_type), StrV(s_severity), StrV(<<"n", "o", "t", "e">>)>>,
          <<StrV(s_default), StrV(s_green), NoneV>>),
     MapV(<<StrV(s_matcher_type), StrV(s_severity), IntV(7)>>,
          <<StrV(s_default), StrV(s_green), NoneV>>),
     StrV(s_default)}

\* the matchers that act on one another: defaults, countries, hashes
CoreMatchers ==
    {m \in MatcherPool :
        /\ IsDict(m)
        /\ Get(m, StrV(s_severity)) \in SEVERITY_VALUES
        /\ Get(m, StrV(s_matcher_value)) \in {NoneV, StrV(<<"U", "S">>), GoodHash}
        /\ Get(m, StrV(s_matcher_type)) \in MATCHER_TYPES
        /\ Len(m.keys) <= 3
        /\ \A k \in Range(m.keys) : IsStr(k) /\ k # StrV(<<"n", "o", "t", "e">>)}

\* lists of matchers: each matcher alone, and the core ones in sequence
MatcherLists ==
    {<<m>> : m \in MatcherPool} \cup SeqsUpTo(CoreMatchers, MaxMatchers)

\* entries that differ in released_at, in matchers or in their fields
EntryPool ==
    {Entry(t, ListV(<<GoodMatcher>>)) : t \in TimePool}
    \cup {Entry(GoodTime, ListV(ms)) : ms \in MatcherLists}
    \cup {Entry(GoodTime, StrV(s_default)), Entry(GoodTime, NoneV),
          MapV(<<StrV(s_released_at)>>, <<GoodTime>>),
          MapV(<<StrV(s_matchers)>>, <<ListV(<<GoodMatcher>>)>>),
          MapV(<<StrV(s_released_at), StrV(s_matchers), StrV(s_notes)>>,
               <<GoodTime, ListV(<<GoodMatcher>>), StrV(<<"x">>)>>),
          MapV(<<StrV(s_released_at), StrV(s_matchers), StrV(<<"z", "z">>), StrV(<<"a", "a">>)>>,
               <<GoodTime, ListV(<<GoodMatcher>>), NoneV, NoneV>>),
          MapV(<<StrV(s_released_at), StrV(s_matchers), IntV(7)>>,
               <<GoodTime, ListV(<<GoodMatcher>>), NoneV>>),
          NoneV, StrV(<<"x">>), ListV(<<>>), IntV(5)}

\* manifests that differ in the entry of one version, alone or after a valid
\* one
EntryManifests ==
    {ManifestDoc(<<v_1_0_0>>, <<e>>) : e \in EntryPool}
    \cup {ManifestDoc(<<v_1_0_0, v_9_0_0>>, <<e, GoodEntry>>) : e \in EntryPool}

\* values of a top-level key, and top-level documents, of every type
ValuePool ==
    {NoneV, BoolV(FALSE), BoolV(TRUE), IntV(0), IntV(5), FloatV(0), StrV(<<>>),
     StrV(<<"x">>), BytesV(<<"x">>), DateV(DaysFromCivil(2026, 1, 10)), GoodTime,
     ListV(<<>>), ListV(<<IntV(1)>>), MapV(<<>>, <<>>),
     MapV(<<StrV(s_notes)>>, <<StrV(<<"x">>)>>)}

TopKeys == {s_versions, s_locales, s_apps}

ShapeDocs ==
    ValuePool
    \cup {StrV(k) : k \in TopKeys}
    \cup {StrV(<<"m", "y", " ">> \o k) : k \in TopKeys}
    \cup {ListV(<<StrV(k)>>) : k \in TopKeys}
    \cup {MapV(<<StrV(k)>>, <<v>>) : k \in TopKeys, v \in ValuePool}

l_en_en == StrV(s_en_en)

l_de_de == StrV(<<"d", "e", "-", "d", "e">>)

l_fr_fr == StrV(<<"f", "r", "-", "f", "r">>)

LocaleEntry(name, notes) == MapV(<<StrV(s_name), StrV(s_notes)>>, <<name, notes>>)

NotesOfLength(n) == StrV([i \in 1..n |-> "x"])

LocaleEntryPool ==
    {LocaleEntry(l_en_en, StrV(<<"f", "i", "x">>)), LocaleEntry(l_de_de, StrV(<<"f", "i", "x">>)),
     LocaleEntry(l_fr_fr, StrV(<<"f", "i", "x">>)), LocaleEntry(l_en_en, StrV(<<>>)),
     LocaleEntry(l_en_en, NotesOfLength(NOTES_MAX_LENGTH)),
     LocaleEntry(l_en_en, NotesOfLength(NOTES_MAX_LENGTH + 1)),
     LocaleEntry(l_en_en, IntV(5)), LocaleEntry(l_en_en, NoneV),
     MapV(<<StrV(s_name)>>, <<l_de_de>>),
     MapV(<<StrV(s_notes)>>, <<StrV(<<"f", "i", "x">>)>>),
     LocaleEntry(StrV(<<>>), StrV(<<"f", "i", "x">>)), LocaleEntry(IntV(5), StrV(<<"f", "i", "x">>)),
     LocaleEntry(ListV(<<l_en_en>>), StrV(<<"f", "i", "x">>)),
     StrV(s_en_en), NoneV}

NotesDoc(entries) == MapV(<<StrV(s_locales)>>, <<ListV(entries)>>)

NotesDocs == {NotesDoc(es) : es \in SeqsUpTo(LocaleEntryPool, MaxLocaleEntries)}

App(name, envs) == MapV(<<StrV(s_name), StrV(s_environments)>>, <<name, envs>>)

n_pos == StrV(<<"p", "o", "s">>)

n_bo == StrV(<<"b", "o">>)

n_live == StrV(<<"l", "i", "v", "e">>)

n_test == StrV(<<"t", "e", "s", "t">>)

AppPool ==
    {App(n_pos, ListV(<<n_live>>)), App(n_pos, ListV(<<n_live, n_test>>)),
     App(n_bo, ListV(<<n_live>>)), App(n_pos, ListV(<<n_live, n_live>>)),
     App(n_pos, ListV(<<StrV(<<"L", "I", "V", "E">>), n_test>>)), App(n_pos, ListV(<<>>)),
     App(n_pos, StrV(<<"l", "i", "v", "e">>)), App(StrV(<<"P", "O", "S">>), ListV(<<n_live>>)),
     App(StrV(<<"p", "o", "s", "\n">>), ListV(<<n_live>>)), App(IntV(5), ListV(<<n_live>>)),
     App(n_bo, ListV(<<IntV(5), n_live>>)),
     MapV(<<StrV(s_name)>>, <<n_pos>>),
     MapV(<<StrV(s_environments)>>, <<ListV(<<n_live>>)>>),
     StrV(<<"p", "o", "s">>), NoneV}

ConfigLocalesPool ==
    {ListV(<<l_en_en>>), ListV(<<l_en_en, l_de_de>>), ListV(<<l_de_de>>),
     ListV(<<l_en_en, l_en_en>>), ListV(<<l_en_en, IntV(5), StrV(<<>>)>>),
     ListV(<<>>), StrV(s_en_en), NoneV}

ConfigDoc(apps, locales) == MapV(<<StrV(s_apps), StrV(s_locales)>>, <<ListV(apps), locales>>)

\* configurations that differ in their apps, with and without locales, or in
\* their locales
ConfigDocs ==
    {ConfigDoc(apps, ListV(<<l_en_en, l_de_de>>)) : apps \in SeqsUpTo(AppPool, MaxApps) \ {<<>>}}
    \cup {ConfigDoc(<<App(n_pos, ListV(<<n_live>>))>>, ls) : ls \in ConfigLocalesPool}
    \cup {MapV(<<StrV(s_apps)>>, <<ListV(<<a>>)>>) : a \in AppPool}

\* the files the validators are called with
Files ==
    {FileYamlError, FileIoError}
    \cup {FileOk(d) : d \in ShapeDocs \cup KeyManifests \cup EntryManifests
                             \cup NotesDocs \cup ConfigDocs}

ValidLocalesPool == {{l_en_en}, {l_en_en, l_de_de}}

----------------------------------------------------------------------------
(***************************************************************************)
(* Specifications of single calls.  A call specification draws the         *)
(* arguments in its initial states and has one action per function called; *)
(* the variables of the orchestrator stay idle.                            *)
(***************************************************************************)
Idle == <<>>

NoRet == [exc |-> "", val |-> FALSE]

SemverAlphabet == {"0", "1", ".", NL, "v"}

SemverInputs == {StrV(s) : s \in StringsUpTo(SemverAlphabet, MaxSemverLen)}

InitSemver ==
    /\ pc = "call"
    /\ arg \in SemverInputs
    /\ ret = NoRet
    /\ fs = Idle /\ mem = Idle /\ out = Idle

CallValidateSemver ==
    /\ pc = "call"
    /\ ret' = validate_semver(arg)
    /\ pc' = "done"
    /\ UNCHANGED <<arg, fs, mem, out>>

NextSemver == CallValidateSemver

SpecSemver == InitSemver /\ [][NextSemver]_vars

\* every file with one set of valid locales, the notes files with each
CallArgs ==
    [file : Files, now : {Now0}, valid_locales : {{l_en_en, l_de_de}}]
    \cup [file : {FileOk(d) : d \in NotesDocs}, now : {Now0},
          valid_locales : ValidLocalesPool]

InitValidators ==
    /\ pc = "call"
    /\ arg \in CallArgs
    /\ ret = NoRet
    /\ fs = Idle /\ mem = Idle /\ out = Idle

CallValidateManifest ==
    /\ pc = "call"
    /\ ret' = validate_manifest(arg.file, arg.now)
    /\ pc' = "validate_manifest"
    /\ UNCHANGED <<arg, fs, mem, out>>

CallValidateNotesFile ==
    /\ pc = "call"
    /\ ret' = validate_notes_file(arg.file, arg.valid_locales)
    /\ pc' = "validate_notes_file"
    /\ UNCHANGED <<arg, fs, mem, out>>

\* validate_config is given what load_config returned for a readable file
CallValidateConfig ==
    /\ pc = "call"
    /\ arg.file.st = "ok"
    /\ ret' = validate_config(arg.file.doc)
    /\ pc' = "validate_config"
    /\ UNCHANGED <<arg, fs, mem, out>>

NextValidators ==
    \/ CallValidateManifest
    \/ CallValidateNotesFile
    \/ CallValidateConfig

SpecValidators == InitValidators /\ [][NextValidators]_vars

\* manifests whose version keys are strings of valid and invalid format, all
\* with the same entry
OrderKeyPool == {k \in VersionKeyPool : IsStr(k)}

OrderManifests ==
    {ManifestDoc(ks, [i \in DOMAIN ks |-> e]) :
        ks \in SeqsOfDistinct(OrderKeyPool, MaxVersions) \ {<<>>},
        e \in {GoodEntry, IntV(5)}}

InitOrder ==
    /\ pc = "call"
    /\ arg \in [file : {FileOk(d) : d \in OrderManifests}, now : {Now0},
                valid_locales : {{l_en_en}}]
    /\ ret = NoRet
    /\ fs = Idle /\ mem = Idle /\ out = Idle

NextOrder == CallValidateManifest

SpecOrder == InitOrder /\ [][NextOrder]_vars

\* the matchers of the calls that vary the matcher list of a version: of each
\* type, with values and severities that repeat, and what is no matcher
MatcherCases ==
    {GoodMatcher,
     MapV(<<StrV(s_matcher_type), StrV(s_severity)>>, <<StrV(s_default), StrV(s_red)>>),
     Matcher(StrV(s_country), StrV(<<"U", "S">>), StrV(s_green)),
     Matcher(StrV(s_country), StrV(<<"U", "S">>), StrV(s_red)),
     Matcher(StrV(s_country), StrV(<<"D", "E">>), StrV(s_green)),
     MapV(<<StrV(s_matcher_type), StrV(s_matcher_value)>>, <<StrV(s_country), StrV(<<"U", "S">>)>>),
     Matcher(StrV(s_country), StrV(<<"X", "X">>), StrV(s_green)),
     Matcher(StrV(s_location_hash), GoodHash, StrV(s_green)),
     Matcher(StrV(s_location_hash), GoodHash, StrV(s_yellow)),
     Matcher(StrV(s_location_hash), StrV(<<"U", "S">>), StrV(s_green)),
     Matcher(StrV(<<"b", "o", "g", "u", "s">>), StrV(<<"U", "S">>), StrV(s_green)),
     StrV(s_default)}

\* lists of them, and lists with a third occurrence
MatcherCaseLists ==
    SeqsUpTo(MatcherCases, MaxMatchers)
    \cup {[i \in 1..(MaxMatchers + 1) |-> m] :
             m \in {GoodMatcher, Matcher(StrV(s_location_hash), GoodHash, StrV(s_green))}}
    \cup {[i \in 1..(MaxMatchers + 1) |->
              Matcher(StrV(s_country), StrV(<<"U", "S">>),
                      IF i = 1 THEN StrV(s_green) ELSE IF i = 2 THEN StrV(s_red) ELSE last)] :
             last \in {StrV(s_green), StrV(s_red)}}

\* manifests of one version with each list, and of two versions whose lists
\* share a value
MatcherManifests ==
    {ManifestDoc(<<v_1_0_0>>, <<Entry(GoodTime, ListV(ms))>>) : ms \in MatcherCaseLists}
    \cup {ManifestDoc(<<v_1_0_0, v_9_0_0>>,
                      <<Entry(GoodTime, ListV(<<GoodMatcher, m>>)),
                        Entry(GoodTime, ListV(ms))>>) :
             m \in {Matcher(StrV(s_country), StrV(<<"U", "S">>), StrV(s_green)),
                    Matcher(StrV(s_location_hash), GoodHash, StrV(s_green))},
             ms \in SeqsUpTo(MatcherCases, 1)}

InitMatchers ==
    /\ pc = "call"
    /\ arg \in [file : {FileOk(d) : d \in MatcherManifests}, now : {Now0},
                valid_locales : {{l_en_en}}]
    /\ ret = NoRet
    /\ fs = Idle /\ mem = Idle /\ out = Idle

NextMatchers == CallValidateManifest

SpecMatchers == InitMatchers /\ [][NextMatchers]_vars

\* the validation times of the calls that vary released_at: Now0, and the
\* same time without its fraction of a second
NowWhole == <<Now0[1], Now0[2], 0>>

NowPool == {Now0, NowWhole}

TimeCase(v, day, secs, micros) == [v |-> v, inst |-> <<day, secs, micros>>]

\* valid values of released_at around the validation times and around 365
\* days before them, each with the UTC instant it stands for: what the
\* parser makes of an unquoted timestamp (aware or naive), and strings with
\* Z, with an offset, naive and date-only
TimeCases ==
    {TimeCase(DatetimeV(Now0, TRUE), Now0[1], Now0[2], Now0[3]),
     TimeCase(DatetimeV(<<Now0[1], Now0[2], Now0[3] + 1>>, TRUE), Now0[1], Now0[2], Now0[3] + 1),
     TimeCase(DatetimeV(<<Now0[1], Now0[2], Now0[3] - 1>>, FALSE), Now0[1], Now0[2], Now0[3] - 1),
     TimeCase(DatetimeV(<<Now0[1] - MAX_AGE_DAYS, Now0[2], Now0[3]>>, FALSE),
              Now0[1] - MAX_AGE_DAYS, Now0[2], Now0[3]),
     TimeCase(DatetimeV(<<Now0[1] - MAX_AGE_DAYS, Now0[2], Now0[3] - 1>>, TRUE),
              Now0[1] - MAX_AGE_DAYS, Now0[2], Now0[3] - 1),
     TimeCase(StrV(<<"2", "0", "2", "6", "-", "0", "1", "-", "2", "0", "T", "1", "2", ":", "0", "0", ":", "0", "0", "Z">>), DaysFromCivil(2026, 1, 20), 12 * 3600, 0),
     TimeCase(StrV(<<"2", "0", "2", "6", "-", "0", "1", "-", "2", "0", "T", "1", "2", ":", "0", "0", ":", "0", "1", "Z">>), DaysFromCivil(2026, 1, 20), 12 * 3600 + 1, 0),
     TimeCase(StrV(<<"2", "0", "2", "6", "-", "0", "1", "-", "2", "0", "T", "1", "2", ":", "0", "0", ":", "0", "0">>), DaysFromCivil(2026, 1, 20), 12 * 3600, 0),
     TimeCase(StrV(<<"2", "0", "2", "6", "-", "0", "1", "-", "2", "0", "T", "1", "3", ":", "0", "0", ":", "0", "0", "+", "0", "1", ":", "0", "0">>), DaysFromCivil(2026, 1, 20), 12 * 3600, 0),
     TimeCase(StrV(<<"2", "0", "2", "6", "-", "0", "1", "-", "2", "0", "T", "0", "7", ":", "0", "0", ":", "0", "1", "-", "0", "5", ":", "0", "0">>), DaysFromCivil(2026, 1, 20), 12 * 3600 + 1, 0),
     TimeCase(StrV(<<"2", "0", "2", "6", "-", "0", "1", "-", "2", "1", "T", "0", "0", ":", "3", "0", ":", "0", "0", "+", "0", "1", ":", "0", "0">>), DaysFromCivil(2026, 1, 20), 23 * 3600 + 1800, 0),
     TimeCase(StrV(<<"2", "0", "2", "5", "-", "0", "1", "-", "2", "0", "T", "1", "2", ":", "0", "0", ":", "0", "0", "Z">>), DaysFromCivil(2025, 1, 20), 12 * 3600, 0),
     TimeCase(StrV(<<"2", "0", "2", "5", "-", "0", "1", "-", "2", "0", "T", "1", "1", ":", "5", "9", ":", "5", "9">>), DaysFromCivil(2025, 1, 20), 12 * 3600 - 1, 0),
     TimeCase(StrV(<<"2", "0", "2", "6", "-", "0", "1", "-", "2", "0">>), DaysFromCivil(2026, 1, 20), 0, 0),
     TimeCase(StrV(<<"2", "0", "2", "6", "-", "0", "1", "-", "2", "1">>), DaysFromCivil(2026, 1, 21), 0, 0),
     TimeCase(GoodTime, DaysFromCivil(2026, 1, 10), 9 * 3600, 0),
     TimeCase(StrV(<<"2", "0", "2", "6", "-", "0", "1", "-", "1", "0", "T", "0", "9", ":", "0", "0", ":", "0", "0", "Z">>), DaysFromCivil(2026, 1, 10), 9 * 3600, 0),
     TimeCase(StrV(<<"2", "0", "2", "6", "-", "0", "1", "-", "1", "0", "T", "0", "8", ":", "5", "9", ":", "5", "9">>), DaysFromCivil(2026, 1, 10), 9 * 3600 - 1, 0)}

\* entries for a sequence of versions: valid times that precede, equal and
\* follow one another, an invalid one, and an entry without released_at
SequenceEntries ==
    {Entry(t, ListV(<<GoodMatcher>>)) :
        t \in {GoodTime, StrV(<<"2", "0", "2", "6", "-", "0", "1", "-", "1", "0", "T", "0", "9", ":", "0", "0", ":", "0", "0", "Z">>), StrV(<<"2", "0", "2", "6", "-", "0", "1", "-", "1", "0", "T", "0", "8", ":", "5", "9", ":", "5", "9">>),
               StrV(<<"2", "0", "2", "6", "-", "0", "1", "-", "2", "0">>), StrV(<<"i", "n", "v", "a", "l", "i", "d">>)}}
    \cup {MapV(<<StrV(s_matchers)>>, <<ListV(<<GoodMatcher>>)>>)}

\* version keys in ascending and in descending order
SequenceKeys == {<<v_1_0_0, v_9_0_0, v_10_0_0, StrV(<<"1", "1", ".", "0", ".", "0">>)>>,
                 <<StrV(<<"1", "1", ".", "0", ".", "0">>), v_10_0_0, v_9_0_0, v_1_0_0>>}

TimeManifests ==
    {ManifestDoc(<<v_1_0_0>>, <<Entry(tc.v, ListV(<<GoodMatcher>>))>>) : tc \in TimeCases}
    \cup {ManifestDoc(SubSeq(ks, 1, Len(es)), es) :
             ks \in SequenceKeys, es \in SeqsUpTo(SequenceEntries, MaxVersions) \ {<<>>}}

InitTimes ==
    /\ pc = "call"
    /\ arg \in [file : {FileOk(d) : d \in TimeManifests}, now : NowPool,
                valid_locales : {{l_en_en}}]
    /\ ret = NoRet
    /\ fs = Idle /\ mem = Idle /\ out = Idle

NextTimes == CallValidateManifest

SpecTimes == InitTimes /\ [][NextTimes]_vars

\* ---- two calls of validate_manifest in succession on one file ----

\* what datetime.now can return in a call that follows one that read now
ClockAfter(now) ==
    {now, <<now[1], now[2], now[3] + 1>>, <<now[1], now[2] + 1, now[3]>>}

\* the second call: the file is as it was, the clock is read again; the
\* caller keeps the list of the first call in mem
CallValidateManifestAgain ==
    /\ pc = "validate_manifest"
    /\ mem' = ret
    /\ ret' = validate_manifest(arg.file, arg.later)
    /\ pc' = "validate_manifest_again"
    /\ UNCHANGED <<arg, fs, out>>

InitTwice ==
    /\ pc = "call"
    /\ \E d \in TimeManifests, now \in NowPool :
          \E later \in ClockAfter(now) :
              arg = [file |-> FileOk(d), now |-> now, later |-> later]
    /\ ret = NoRet
    /\ fs = Idle /\ mem = Idle /\ out = Idle

NextTwice == CallValidateManifest \/ CallValidateManifestAgain

SpecTwice == InitTwice /\ [][NextTwice]_vars

\* ---- calls of validate_location_hash ----

MaxHashTail == 3

\* lowercase and uppercase hex digits, a letter after f, and whitespace
HashAlphabet == {"a", "f", "0", "9", "A", "F", "g", " ", "\n"}

\* HashLen - 2 hex digits
HashHead == [i \in 1..(HashLen - 2) |-> IF i % 2 = 0 THEN "c" ELSE "7"]

\* strings of HashLen - 2 to HashLen - 2 + MaxHashTail characters that begin
\* with hex digits, and short strings
HashInputs ==
    {StrV(HashHead \o t) : t \in StringsUpTo(HashAlphabet, MaxHashTail)}
    \cup {StrV(t) : t \in StringsUpTo(HashAlphabet, 2)}

InitHash ==
    /\ pc = "call"
    /\ arg \in HashInputs
    /\ ret = NoRet
    /\ fs = Idle /\ mem = Idle /\ out = Idle

CallValidateLocationHash ==
    /\ pc = "call"
    /\ ret' = validate_location_hash(arg)
    /\ pc' = "validate_location_hash"
    /\ UNCHANGED <<arg, fs, mem, out>>

NextHash == CallValidateLocationHash

SpecHash == InitHash /\ [][NextHash]_vars

\* ---- calls of validate_iso8601 ----

IsoCase(v, valid) == [v |-> v, valid |-> valid]

\* dates, times and offsets, each with whether it is well-formed
IsoDates ==
    {IsoCase(<<"2", "0", "2", "6", "-", "0", "1", "-", "1", "0">>, TRUE), IsoCase(<<"2", "0", "2", "4", "-", "0", "2", "-", "2", "9">>, TRUE), IsoCase(<<"2", "0", "2", "6", "-", "1", "3", "-", "0", "1">>, FALSE),
     IsoCase(<<"2", "0", "2", "6", "-", "0", "2", "-", "3", "0">>, FALSE), IsoCase(<<"2", "0", "2", "6", "-", "1", "-", "1", "0">>, FALSE)}

IsoTimes ==
    {IsoCase(<<"T", "0", "9", ":", "0", "0", ":", "0", "0">>, TRUE), IsoCase(<<" ", "0", "9", ":", "0", "0">>, TRUE), IsoCase(<<"T", "0", "9">>, TRUE),
     IsoCase(<<"T", "2", "5", ":", "0", "0", ":", "0", "0">>, FALSE), IsoCase(<<"T", "0", "9", ":", "6", "0">>, FALSE)}

IsoOffsets ==
    {IsoCase(<<>>, TRUE), IsoCase(<<"Z">>, TRUE), IsoCase(<<"+", "0", "1", ":", "0", "0">>, TRUE),
     IsoCase(<<"z">>, FALSE), IsoCase(<<"+", "1">>, FALSE)}

\* values a document can hold for released_at, each with whether it is a
\* timestamp: strings put together from a date, a time and an offset,
\* date-only and other strings, timestamps the parser has structured, and
\* the other scalars and collections
IsoCases ==
    {IsoCase(StrV(d.v \o t.v \o z.v), d.valid /\ t.valid /\ z.valid) :
        d \in IsoDates, t \in IsoTimes, z \in IsoOffsets}
    \cup {IsoCase(StrV(d.v), d.valid) : d \in IsoDates}
    \cup {IsoCase(StrV(<<"i", "n", "v", "a", "l", "i", "d">>), FALSE), IsoCase(StrV(<<>>), FALSE),
          IsoCase(StrV(<<"n", "o", "t", "-", "a", "-", "d", "a", "t", "e">>), FALSE)}
    \cup {IsoCase(tc.v, TRUE) : tc \in TimeCases}
    \cup {IsoCase(v, FALSE) :
            v \in {NoneV, IntV(123), IntV(0), FloatV(1), BoolV(TRUE), BoolV(FALSE),
                   ListV(<<>>), ListV(<<GoodTime>>), MapV(<<>>, <<>>),
                   DateV(DaysFromCivil(2026, 1, 10)), DateV(DaysFromCivil(2024, 2, 29)),
                   BytesV(<<"Z", "m", "9", "v">>)}}

InitIso ==
    /\ pc = "call"
    /\ arg \in {c.v : c \in IsoCases}
    /\ ret = NoRet
    /\ fs = Idle /\ mem = Idle /\ out = Idle

CallValidateIso8601 ==
    /\ pc = "call"
    /\ ret' = validate_iso8601(arg)
    /\ pc' = "validate_iso8601"
    /\ UNCHANGED <<arg, fs, mem, out>>

NextIso == CallValidateIso8601

SpecIso == InitIso /\ [][NextIso]_vars

\* ---- calls of validate_config ----

n_staging == StrV(<<"s", "t", "a", "g", "i", "n", "g">>)

\* apps for a list of apps: the app of the documentation's example, the same
\* name with one environment, a second name whose environments have a
\* repeated one followed by an invalid and a valid one, a name that ends
\* with a newline, an app without environments, one without a name, and an
\* app that is not an object
ConfigAppCases ==
    {App(n_pos, ListV(<<n_live, n_staging>>)),
     App(n_pos, ListV(<<n_test>>)),
     App(n_bo, ListV(<<n_live, n_live, StrV(<<"L", "I", "V", "E">>), n_test>>)),
     App(StrV(<<"p", "o", "s", "\n">>), ListV(<<n_live>>)),
     MapV(<<StrV(s_name)>>, <<n_bo>>),
     MapV(<<StrV(s_environments)>>, <<ListV(<<n_live>>)>>),
     StrV(<<"p", "o", "s">>)}

ConfigAppLists == SeqsUpTo(ConfigAppCases, MaxApps + 1) \ {<<>>}

\* configurations with a list of apps: with the required locale alone, with
\* another locale alone, and without the locales key
ListedConfigs ==
    {ConfigDoc(apps, ls) : apps \in ConfigAppLists, ls \in {ListV(<<l_en_en>>), ListV(<<l_de_de>>)}}
    \cup {MapV(<<StrV(s_apps)>>, <<ListV(apps)>>) : apps \in ConfigAppLists}

\* configurations that are empty, have no apps key, or whose apps is not a
\* non-empty list
UnlistedConfigs ==
    {NoneV, MapV(<<>>, <<>>), ListV(<<>>), StrV(<<>>), IntV(0), BoolV(FALSE),
     MapV(<<StrV(s_locales)>>, <<ListV(<<l_en_en>>)>>),
     ListV(<<StrV(s_locales)>>), StrV(s_locales), IntV(5), BoolV(TRUE)}
    \cup {MapV(<<StrV(s_apps), StrV(s_locales)>>, <<a, ListV(<<l_de_de>>)>>) :
            a \in {NoneV, ListV(<<>>), StrV(<<"p", "o", "s">>), IntV(5), MapV(<<>>, <<>>),
                   App(n_pos, ListV(<<n_live>>))}}

InitConfig ==
    /\ pc = "call"
    /\ arg \in [file : {FileOk(d) : d \in ListedConfigs \cup UnlistedConfigs}]
    /\ ret = NoRet
    /\ fs = Idle /\ mem = Idle /\ out = Idle

NextConfig == CallValidateConfig

SpecConfig == InitConfig /\ [][NextConfig]_vars

\* ---- calls of validate_config that vary the locales section ----

MaxConfigLocales == 3

\* items of a list of locales: names, an empty string, a number and a
\* missing value
ConfigLocaleItems == {l_en_en, l_de_de, StrV(<<>>), IntV(5), NoneV}

\* values of the 'locales' key: lists of items, and values that are not lists
ConfigLocaleValues ==
    {ListV(ls) : ls \in SeqsUpTo(ConfigLocaleItems, MaxConfigLocales)}
    \cup {StrV(s_en_en), NoneV, IntV(5), MapV(<<l_en_en>>, <<l_en_en>>)}

\* lists of apps without and with errors
LocaleConfigApps ==
    {<<App(n_pos, ListV(<<n_live>>))>>,
     <<App(n_pos, ListV(<<n_live>>)), App(n_pos, ListV(<<n_live>>))>>,
     <<StrV(<<"p", "o", "s">>)>>,
     <<App(n_bo, ListV(<<n_live, n_live, IntV(5)>>)), MapV(<<StrV(s_name)>>, <<n_pos>>)>>}

LocaleConfigs ==
    {ConfigDoc(apps, ls) : apps \in LocaleConfigApps, ls \in ConfigLocaleValues}
    \cup {MapV(<<StrV(s_apps)>>, <<ListV(apps)>>) : apps \in LocaleConfigApps}

InitLocales ==
    /\ pc = "call"
    /\ arg \in [file : {FileOk(d) : d \in LocaleConfigs}]
    /\ ret = NoRet
    /\ fs = Idle /\ mem = Idle /\ out = Idle

NextLocales == CallValidateConfig

SpecLocales == InitLocales /\ [][NextLocales]_vars

\* ---- calls of validate_notes_file ----

\* entries for longer lists: three names, one of them in no configuration,
\* an entry with empty notes and one whose notes is a number
CoreLocaleEntries ==
    {LocaleEntry(l_en_en, StrV(<<"f", "i", "x">>)), LocaleEntry(l_de_de, StrV(<<"f", "i", "x">>)),
     LocaleEntry(l_fr_fr, StrV(<<"f", "i", "x">>)), LocaleEntry(l_en_en, StrV(<<>>)),
     LocaleEntry(l_de_de, IntV(5)), StrV(s_en_en)}

NotesFileDocs ==
    NotesDocs \cup {NotesDoc(es) : es \in SeqsUpTo(CoreLocaleEntries, MaxLocaleEntries + 1)}

InitNotes ==
    /\ pc = "call"
    /\ arg \in [file : {FileOk(d) : d \in NotesFileDocs \ {NotesDoc(<<>>)}},
                valid_locales : ValidLocalesPool]
    /\ ret = NoRet
    /\ fs = Idle /\ mem = Idle /\ out = Idle

NextNotes == CallValidateNotesFile

SpecNotes == InitNotes /\ [][NextNotes]_vars

\* ---- calls of validate_notes_filename ----

NamePart(s, valid) == [s |-> s, valid |-> valid]

\* the parts of a filename, each with whether it is the part the pattern asks
\* for: an app, a separator, a version and an extension
FilenameApps ==
    {NamePart(<<"p", "o", "s">>, TRUE), NamePart(<<"p">>, TRUE), NamePart(<<>>, FALSE),
     NamePart(<<"P", "o", "s">>, FALSE), NamePart(<<"p", "o", "1">>, FALSE)}

FilenameSeparators == {NamePart(<<"-", "-">>, TRUE), NamePart(<<"-">>, FALSE), NamePart(<<"-", "-", "-">>, FALSE)}

FilenameVersions ==
    {NamePart(<<"1", ".", "0", ".", "0">>, TRUE), NamePart(<<"1", "0", ".", "2", ".", "3", "3">>, TRUE), NamePart(<<"1", ".", "0">>, FALSE),
     NamePart(<<"1", ".", "0", ".", "0", ".", "0">>, FALSE), NamePart(<<"a", ".", "b", ".", "c">>, FALSE), NamePart(<<"1", ".", ".", "0">>, FALSE)}

FilenameExtensions ==
    {NamePart(<<".", "y", "m", "l">>, TRUE), NamePart(<<".", "y", "a", "m", "l">>, FALSE), NamePart(<<"y", "m", "l">>, FALSE),
     NamePart(<<".", "y", "m", "l", "\n">>, FALSE), NamePart(<<".", "y", "m", "l", "x">>, FALSE),
     NamePart(<<>>, FALSE)}

\* a filename put together from four parts, with its parts
FilenameCases ==
    {[filename |-> a.s \o s.s \o v.s \o e.s, app |-> a.s, version |-> v.s,
      valid |-> a.valid /\ s.valid /\ v.valid /\ e.valid] :
        a \in FilenameApps, s \in FilenameSeparators,
        v \in FilenameVersions, e \in FilenameExtensions}

InitFilename ==
    /\ pc = "call"
    /\ arg \in FilenameCases
    /\ ret = NoRet
    /\ fs = Idle /\ mem = Idle /\ out = Idle

CallValidateNotesFilename ==
    /\ pc = "call"
    /\ ret' = validate_notes_filename(arg.filename)
    /\ pc' = "validate_notes_filename"
    /\ UNCHANGED <<arg, fs, mem, out>>

NextFilename == CallValidateNotesFilename

SpecFilename == InitFilename /\ [][NextFilename]_vars

\* ---- calls of validate_manifest that vary the entries of several versions ----

\* entries without and with an error of each kind: not a mapping, an extra
\* field, released_at missing, malformed, in the future and date-only,
\* matchers missing, not a list, and with a matcher that is no object
EntryCases ==
    {GoodEntry, IntV(5),
     MapV(<<StrV(s_released_at), StrV(s_matchers), StrV(<<"e", "x", "t", "r", "a">>)>>,
          <<GoodTime, ListV(<<GoodMatcher>>), IntV(1)>>),
     MapV(<<StrV(s_matchers)>>, <<ListV(<<GoodMatcher>>)>>),
     Entry(StrV(<<"i", "n", "v", "a", "l", "i", "d">>), ListV(<<GoodMatcher>>)),
     Entry(StrV(<<"2", "0", "2", "6", "-", "0", "1", "-", "2", "1">>), ListV(<<GoodMatcher>>)),
     Entry(DateV(DaysFromCivil(2026, 1, 10)), ListV(<<GoodMatcher>>)),
     MapV(<<StrV(s_released_at)>>, <<GoodTime>>),
     Entry(GoodTime, StrV(s_default)),
     Entry(GoodTime, ListV(<<IntV(5)>>))}

\* version keys that ascend and descend, with one of invalid format
EntryKeys == {<<v_1_0_0, StrV(<<"a", ".", "b", ".", "c">>), v_9_0_0, v_10_0_0>>,
              <<v_10_0_0, v_9_0_0, StrV(<<"a", ".", "b", ".", "c">>), v_1_0_0>>}

EntryCaseManifests ==
    {ManifestDoc(SubSeq(ks, 1, Len(es)), es) :
        ks \in EntryKeys, es \in SeqsUpTo(EntryCases, MaxVersions) \ {<<>>}}

InitEntries ==
    /\ pc = "call"
    /\ arg \in [file : {FileOk(d) : d \in EntryCaseManifests}, now : {Now0},
                valid_locales : {{l_en_en}}]
    /\ ret = NoRet
    /\ fs = Idle /\ mem = Idle /\ out = Idle

NextEntries == CallValidateManifest

SpecEntries == InitEntries /\ [][NextEntries]_vars

\* ---- calls of validate_manifest that vary matcher_type, matcher_value and severity ----

\* a field of a matcher: its key with a value, or no field
Field(key, v) == [keys |-> <<StrV(key)>>, vals |-> <<v>>]

NoField == [keys |-> <<>>, vals |-> <<>>]

MatcherOf(type, value, severity) ==
    MapV(type.keys \o value.keys \o severity.keys, type.vals \o value.vals \o severity.vals)

\* matchers of every allowed type, of a type that is not allowed and
\* without type, with a value that is accepted or rejected or without
\* value, and with each severity, one that is not allowed, and without
SeverityMatchers ==
    {MatcherOf(type, value, severity) :
        type \in {Field(s_matcher_type, StrV(t)) :
                     t \in {s_default, s_country, s_location_hash, <<"b", "o", "g", "u", "s">>}} \cup {NoField},
        value \in {Field(s_matcher_value, v) : v \in {StrV(<<"U", "S">>), StrV(<<"X", "X">>), GoodHash}}
                  \cup {NoField},
        severity \in {Field(s_severity, StrV(s)) : s \in {s_green, s_yellow, s_red, <<"p", "u", "r", "p", "l", "e">>}}
                     \cup {NoField}}

SeverityManifests ==
    {ManifestDoc(<<v_1_0_0>>, <<Entry(GoodTime, ListV(ms))>>) :
        ms \in {<<m>> : m \in SeverityMatchers}
               \cup {<<m, GoodMatcher>> : m \in SeverityMatchers}
               \cup {<<GoodMatcher, IntV(5), m>> : m \in SeverityMatchers}}

InitSeverity ==
    /\ pc = "call"
    /\ arg \in [file : {FileOk(d) : d \in SeverityManifests}, now : {Now0},
                valid_locales : {{l_en_en}}]
    /\ ret = NoRet
    /\ fs = Idle /\ mem = Idle /\ out = Idle

NextSeverity == CallValidateManifest

SpecSeverity == InitSeverity /\ [][NextSeverity]_vars

\* ---- validate_manifest of validate.py and of validate_manifest.py on one file ----

\* entries and matchers with a field beside the allowed ones, under a key
\* that is a string or another scalar, in an entry with or without default
\* matcher
KeyedEntries ==
    {MapV(<<StrV(s_released_at), StrV(s_matchers), k>>, <<GoodTime, ms, StrV(s_green)>>) :
        k \in {StrV(<<"b", "u", "i", "l", "d">>), IntV(1), NoneV},
        ms \in {ListV(<<GoodMatcher>>), ListV(<<>>)}}
    \cup {Entry(GoodTime, ListV(<<MapV(<<StrV(s_matcher_type), k>>,
                                       <<StrV(s_default), StrV(s_green)>>)>>)) :
             k \in {StrV(<<"b", "u", "i", "l", "d">>), IntV(1), NoneV}}

KeyedManifests ==
    {ManifestDoc(<<v_1_0_0>>, <<e>>) : e \in KeyedEntries}
    \cup {ManifestDoc(<<v_9_0_0, v_1_0_0>>, <<GoodEntry, e>>) : e \in KeyedEntries}

\* the arguments of the calls on the files of a family of documents
BothArgs(docs) ==
    [file : {FileOk(d) : d \in docs}, now : NowPool, valid_locales : {{l_en_en}}]

\* validate_manifest of validate.py on the file the later validator was
\* called with; the caller keeps its result in mem
CallScriptValidateManifest ==
    /\ pc = "validate_manifest"
    /\ mem' = script_validate_manifest(arg.file)
    /\ pc' = "script_validate_manifest"
    /\ UNCHANGED <<arg, ret, fs, out>>

InitBoth ==
    /\ pc = "call"
    /\ \/ arg \in [file : Files, now : NowPool, valid_locales : {{l_en_en}}]
       \/ arg \in BothArgs(OrderManifests)
       \/ arg \in BothArgs(MatcherManifests)
       \/ arg \in BothArgs(TimeManifests)
       \/ arg \in BothArgs(EntryCaseManifests)
       \/ arg \in BothArgs(SeverityManifests)
       \/ arg \in BothArgs(KeyedManifests)
    /\ ret = NoRet
    /\ fs = Idle /\ mem = Idle /\ out = Idle

NextBoth == CallValidateManifest \/ CallScriptValidateManifest

SpecBoth == InitBoth /\ [][NextBoth]_vars

----------------------------------------------------------------------------
(***************************************************************************)
(* main() of validate.py.  fs is the file tree the run reads: config (the  *)
(* file config.yml), manifests_dir (whether manifests/ exists) and         *)
(* manifests (the files manifests/*.yml by name).  mem holds the locals of *)
(* main, out what it has printed and its exit code (Running until it       *)
(* exits).  A for loop over a set takes its elements in any order; todo    *)
(* is what the running loop has still to take.  An exception that leaves   *)
(* main ends the run with a traceback and exit code 1.                     *)
(***************************************************************************)
Running == -1

Line(text) == [text |-> text, name |-> <<>>, err |-> NoErr]

FileLine(name) == [text |-> "{filename}:", name |-> name, err |-> NoErr]

ErrorLine(error) == [text |-> "  - {error}", name |-> <<>>, err |-> error]

ErrorLines(errors) == [i \in DOMAIN errors |-> ErrorLine(errors[i])]

EmptyDict == [keys |-> <<>>, vals |-> <<>>]

\* all_errors[name] = errors
SetItem(d, name, errors) ==
    IF \E i \in DOMAIN d.keys : d.keys[i] = name
    THEN [d EXCEPT !.vals[CHOOSE i \in DOMAIN d.keys : d.keys[i] = name] = errors]
    ELSE [keys |-> Append(d.keys, name), vals |-> Append(d.vals, errors)]

\* all_errors[name]
Item(d, name) == d.vals[CHOOSE i \in DOMAIN d.keys : d.keys[i] = name]

\* sorted(names) for a set of filenames
RECURSIVE SortedNames(_)
SortedNames(names) ==
    IF names = {} THEN <<>>
    ELSE LET least == CHOOSE x \in names : \A y \in names \ {x} : StrLess(x, y)
         IN  <<least>> \o SortedNames(names \ {least})

\* the keys of all_errors as the report would take them without sorting
ReportOrder_insertion(all_errors) == all_errors.keys

\* sorted(all_errors.keys())
ReportOrder(all_errors) == SortedNames(Range(all_errors.keys))

\* the lines printed for the filenames order[i..]
RECURSIVE ReportLines(_, _, _)
ReportLines(all_errors, order, i) ==
    IF i > Len(order) THEN <<>>
    ELSE <<FileLine(order[i])>> \o ErrorLines(Item(all_errors, order[i]))
         \o ReportLines(all_errors, order, i + 1)

Rule == Line("============================================================")

Mem0 ==
    [config |-> NoneV, expected_files |-> {}, actual_files |-> {}, expected_set |-> {},
     all_errors |-> EmptyDict, todo |-> {}, exc |-> ""]

Out0 == [lines |-> <<>>, code |-> Running]

\* print(...) of each line, then sys.exit(code)
PrintAndExit(lines, code) ==
    /\ out' = [lines |-> out.lines \o lines, code |-> code]
    /\ pc' = "exit"

\* an uncaught exception: the traceback goes to stderr, the exit code is 1
Crash(exc) ==
    /\ mem' = [mem EXCEPT !.exc = exc]
    /\ out' = [out EXCEPT !.code = 1]
    /\ pc' = "exit"

\* what lines 229-242 print for the file config.yml
ConfigBanner(file) ==
    <<Rule, Line("config.yml content:"), Rule,
      CASE file.st \in {"ok", "yamlerror"} -> Line("{config_content}")
        [] file.st = "notfound" -> Line("config.yml not found")
        [] OTHER -> Line("Error reading config.yml: {e}"),
      Rule, Line("")>>

\* lines 229-242
PrintConfigContent ==
    /\ pc = "print_config"
    /\ out' = [out EXCEPT !.lines = @ \o ConfigBanner(fs.config)]
    /\ pc' = "load_config"
    /\ UNCHANGED <<arg, ret, fs, mem>>

\* lines 245-248
LoadConfig ==
    /\ pc = "load_config"
    /\ LET loaded == load_config(fs.config)
       IN  IF loaded.error # NoErr
           THEN /\ PrintAndExit(<<[text |-> "Error: {config_error}", name |-> <<>>,
                                   err |-> loaded.error]>>, 1)
                /\ UNCHANGED mem
           ELSE /\ mem' = [mem EXCEPT !.config = loaded.config]
                /\ pc' = "validate_config"
                /\ UNCHANGED out
    /\ UNCHANGED <<arg, ret, fs>>

\* the rest of lines 250-256 for what validate_config returned
ConfigValidated(result) ==
    IF result.errors # <<>>
    THEN /\ PrintAndExit(<<Line("Validation failed:"), Line(""), Line("config.yml:")>>
                         \o ErrorLines(result.errors), 1)
         /\ UNCHANGED mem
    ELSE /\ mem' = [mem EXCEPT !.expected_files = result.expected_files]
         /\ pc' = "manifests_dir"
         /\ UNCHANGED out

\* lines 250-256
ValidateConfig ==
    /\ pc = "validate_config"
    /\ LET r == script_validate_config(mem.config)
       IN  IF r.exc # "" THEN Crash(r.exc) ELSE ConfigValidated(r.val)
    /\ UNCHANGED <<arg, ret, fs>>

\* lines 258-260 without the sys.exit(1): the run goes on after the message
CheckManifestsDir_noexit ==
    /\ pc = "manifests_dir"
    /\ out' = [out EXCEPT !.lines =
                  IF ~fs.manifests_dir
                  THEN Append(@, Line("Error: manifests directory not found"))
                  ELSE @]
    /\ pc' = "list"
    /\ UNCHANGED <<arg, ret, fs, mem>>

\* lines 258-260
CheckManifestsDir ==
    /\ pc = "manifests_dir"
    /\ IF ~fs.manifests_dir
       THEN PrintAndExit(<<Line("Error: manifests directory not found")>>, 1)
       ELSE pc' = "list" /\ UNCHANGED out
    /\ UNCHANGED <<arg, ret, fs, mem>>

\* lines 263-269 with every file of manifests/ taken for an orphan
ListManifests_all ==
    /\ pc = "list"
    /\ mem' = [mem EXCEPT !.actual_files = DOMAIN fs.manifests,
                          !.expected_set = mem.expected_files,
                          !.all_errors = EmptyDict,
                          !.todo = DOMAIN fs.manifests]
    /\ pc' = "orphans"
    /\ UNCHANGED <<arg, ret, fs, out>>

\* lines 263-269: the sets, the empty mapping, and the set the first loop
\* iterates
ListManifests ==
    /\ pc = "list"
    /\ mem' = [mem EXCEPT !.actual_files = DOMAIN fs.manifests,
                          !.expected_set = mem.expected_files,
                          !.all_errors = EmptyDict,
                          !.todo = (DOMAIN fs.manifests) \ mem.expected_files]
    /\ pc' = "orphans"
    /\ UNCHANGED <<arg, ret, fs, out>>

\* lines 270-271, one iteration
OrphanStep ==
    /\ pc = "orphans"
    /\ \E orphan \in mem.todo :
          mem' = [mem EXCEPT
                    !.all_errors = SetItem(@, orphan,
                        <<Err("Manifest file not defined in config.yml", <<>>)>>),
                    !.todo = @ \ {orphan}]
    /\ UNCHANGED <<pc, arg, ret, fs, out>>

\* line 274 with the missing files looked for only when there is no orphan
OrphansDone_exclusive ==
    /\ pc = "orphans"
    /\ mem.todo = {}
    /\ mem' = [mem EXCEPT !.todo = IF mem.all_errors.keys # <<>> THEN {}
                                   ELSE mem.expected_set \ mem.actual_files]
    /\ pc' = "missing"
    /\ UNCHANGED <<arg, ret, fs, out>>

\* line 274, when the loop over orphan_files is exhausted
OrphansDone ==
    /\ pc = "orphans"
    /\ mem.todo = {}
    /\ mem' = [mem EXCEPT !.todo = mem.expected_set \ mem.actual_files]
    /\ pc' = "missing"
    /\ UNCHANGED <<arg, ret, fs, out>>

\* lines 275-276, one iteration
MissingStep ==
    /\ pc = "missing"
    /\ \E missing \in mem.todo :
          mem' = [mem EXCEPT
                    !.all_errors = SetItem(@, missing,
                        <<Err("Missing manifest file (defined in config.yml but file not found)",
                              <<>>)>>),
                    !.todo = @ \ {missing}]
    /\ UNCHANGED <<pc, arg, ret, fs, out>>

\* line 279, when the loop over missing_files is exhausted
MissingDone ==
    /\ pc = "missing"
    /\ mem.todo = {}
    /\ mem' = [mem EXCEPT !.todo = mem.actual_files \cap mem.expected_set]
    /\ pc' = "validate"
    /\ UNCHANGED <<arg, ret, fs, out>>

\* lines 283-284 without the test of errors: every validated file is recorded
ManifestValidated_always(filename, errors) ==
    /\ mem' = [mem EXCEPT !.all_errors = SetItem(@, filename, errors),
                          !.todo = @ \ {filename}]
    /\ UNCHANGED <<pc, out>>

\* the rest of lines 280-284 for what validate_manifest returned
ManifestValidated(filename, errors) ==
    /\ mem' = [mem EXCEPT
                 !.all_errors = IF errors # <<>> THEN SetItem(@, filename, errors) ELSE @,
                 !.todo = @ \ {filename}]
    /\ UNCHANGED <<pc, out>>

\* lines 280-284, one iteration
ValidateStep ==
    /\ pc = "validate"
    /\ \E filename \in mem.todo :
          LET r == script_validate_manifest(fs.manifests[filename])
          IN  IF r.exc # "" THEN Crash(r.exc) ELSE ManifestValidated(filename, r.val)
    /\ UNCHANGED <<arg, ret, fs>>

\* when the loop over valid_files is exhausted
ValidateDone ==
    /\ pc = "validate"
    /\ mem.todo = {}
    /\ pc' = "report"
    /\ UNCHANGED <<arg, ret, fs, mem, out>>

\* lines 286-295
Report ==
    /\ pc = "report"
    /\ IF mem.all_errors.keys # <<>>
       THEN PrintAndExit(<<Line("Validation failed:"), Line("")>>
                         \o ReportLines(mem.all_errors, ReportOrder(mem.all_errors), 1), 1)
       ELSE PrintAndExit(<<Line("All manifest files are valid")>>, 0)
    /\ UNCHANGED <<arg, ret, fs, mem>>

\* the file trees of the runs: config.yml in each state, valid and invalid
\* configurations, and up to MaxManifests files of manifests/
ConfigPool ==
    {ConfigDoc(<<App(n_pos, ListV(<<n_live>>))>>, ListV(<<l_en_en>>)),
     ConfigDoc(<<App(n_pos, ListV(<<n_live, n_test>>))>>, ListV(<<l_en_en>>)),
     ConfigDoc(<<App(n_pos, ListV(<<n_live>>)), App(n_bo, ListV(<<n_live>>))>>,
               ListV(<<l_en_en>>)),
     ConfigDoc(<<App(StrV(<<"P", "O", "S">>), ListV(<<n_live>>))>>, ListV(<<l_en_en>>)),
     NoneV,
     ListV(<<StrV(s_apps)>>)}

ConfigFiles ==
    {FileOk(d) : d \in ConfigPool} \cup {FileYamlError, FileNotFound, FileIoError}

ManifestNames ==
    {<<"p", "o", "s", "-", "-", "l", "i", "v", "e", ".", "y", "m", "l">>, <<"p", "o", "s", "-", "-", "t", "e", "s", "t", ".", "y", "m", "l">>, <<"b", "o", "-", "-", "l", "i", "v", "e", ".", "y", "m", "l">>, <<"u", "n", "k", "n", "o", "w", "n", "-", "-", "a", "p", "p", ".", "y", "m", "l">>}

ManifestFilePool ==
    {FileOk(ManifestDoc(<<v_1_0_0>>, <<GoodEntry>>)),
     FileOk(ManifestDoc(<<StrV(<<"1", ".", "0">>)>>, <<Entry(GoodTime, ListV(<<>>))>>)),
     FileYamlError,
     FileOk(IntV(5))}

ManifestTrees ==
    UNION {[names -> ManifestFilePool] :
              names \in {ns \in SUBSET ManifestNames : Cardinality(ns) <= MaxManifests}}

FileTrees ==
    [config : ConfigFiles, manifests_dir : {TRUE}, manifests : ManifestTrees]
    \cup [config : ConfigFiles, manifests_dir : {FALSE}, manifests : {<<>>}]

Init ==
    /\ pc = "print_config"
    /\ fs \in FileTrees
    /\ mem = Mem0
    /\ out = Out0
    /\ arg = Idle /\ ret = NoRet

Next ==
    \/ PrintConfigContent
    \/ LoadConfig
    \/ ValidateConfig
    \/ CheckManifestsDir
    \/ ListManifests
    \/ OrphanStep
    \/ OrphansDone
    \/ MissingStep
    \/ MissingDone
    \/ ValidateStep
    \/ ValidateDone
    \/ Report

Spec == Init /\ [][Next]_vars

----------------------------------------------------------------------------
(***************************************************************************)
(* The orchestrator over manifests and notes.  The script that runs the   *)
(* validators of validate_config.py, validate_manifest.py and              *)
(* validate_notes.py together is not among the sources; its steps follow   *)
(* section 4.5 of the specification, its report section 6.  The file tree  *)
(* fs has, besides config, manifests_dir and manifests, notes_dir and      *)
(* notes (the files notes/*.yml by name) and the time now of the run.      *)
(* all_errors is a mapping from filename to errors.                        *)
(***************************************************************************)
CrossMem0 ==
    [expected_files |-> {}, app_names |-> {}, locales |-> {}, all_errors |-> <<>>,
     todo |-> {}, manifest_versions |-> {}, notes_versions |-> {}, exc |-> ""]

\* the mapping with errors added to those under name
AddErrors(all_errors, name, errors) ==
    [n \in DOMAIN all_errors \cup {name} |->
        (IF n \in DOMAIN all_errors THEN all_errors[n] ELSE <<>>)
        \o (IF n = name THEN errors ELSE <<>>)]

\* the mapping as the report takes it
AsDict(all_errors) ==
    LET order == SortedNames(DOMAIN all_errors)
    IN  [keys |-> order, vals |-> [i \in DOMAIN order |-> all_errors[order[i]]]]

\* "notes/{filename}"
NotesKey(filename) == <<"n", "o", "t", "e", "s", "/">> \o filename

\* "{app}--{version}.yml"
NotesFilename(app, version) == app \o <<"-", "-">> \o version \o s_yml

\* the app of a manifest filename: what comes before "--"
AppOf(filename) ==
    LET dashes == {i \in 1..(Len(filename) - 1) :
                      filename[i] = "-" /\ filename[i + 1] = "-"}
    IN  IF dashes = {} THEN filename
        ELSE SubSeq(filename, 1, (CHOOSE i \in dashes : \A j \in dashes : i <= j) - 1)

\* the versions a manifest file mentions, as far as it can be read
VersionsOf(file) ==
    IF /\ file.st = "ok"
       /\ IsDict(file.doc)
       /\ IsDict(Get(file.doc, StrV(s_versions)))
    THEN {k.s : k \in {x \in Range(Get(file.doc, StrV(s_versions)).keys) : IsStr(x)}}
    ELSE {}

\* the configuration is valid: its sets are kept
CrossConfigValidated(result) ==
    IF result.errors # <<>>
    THEN /\ PrintAndExit(<<Line("Validation failed:"), Line(""), Line("config.yml:")>>
                         \o ErrorLines(result.errors), 1)
         /\ UNCHANGED mem
    ELSE /\ mem' = [mem EXCEPT !.expected_files = result.expected_files,
                               !.app_names = result.app_names,
                               !.locales = result.locales]
         /\ pc' = "x_manifests_dir"
         /\ UNCHANGED out

CrossConfigLoaded(r) ==
    IF r.exc # "" THEN Crash(r.exc) ELSE CrossConfigValidated(r.val)

\* load the configuration and validate it: fatal on an error
CrossLoadConfig ==
    /\ pc = "x_config"
    /\ IF load_config(fs.config).error # NoErr
       THEN /\ PrintAndExit(<<[text |-> "Error: {config_error}", name |-> <<>>,
                               err |-> load_config(fs.config).error]>>, 1)
            /\ UNCHANGED mem
       ELSE CrossConfigLoaded(validate_config(load_config(fs.config).config))
    /\ UNCHANGED <<arg, ret, fs>>

\* no manifests directory is fatal
CrossCheckManifestsDir ==
    /\ pc = "x_manifests_dir"
    /\ IF ~fs.manifests_dir
       THEN PrintAndExit(<<Line("Error: manifests directory not found")>>, 1)
       ELSE pc' = "x_files" /\ UNCHANGED out
    /\ UNCHANGED <<arg, ret, fs, mem>>

\* orphans and missing files, each computed from the two sets alone
CrossCompareFiles ==
    /\ pc = "x_files"
    /\ LET actual == DOMAIN fs.manifests
           expected == mem.expected_files
       IN  mem' = [mem EXCEPT
                     !.all_errors =
                         [n \in (actual \ expected) \cup (expected \ actual) |->
                             IF n \in actual
                             THEN <<Err("Manifest file not defined in config.yml", <<>>)>>
                             ELSE <<Err("Missing manifest file (defined in config.yml but file not found)",
                                        <<>>)>>],
                     !.todo = actual \cap expected]
    /\ pc' = "x_validate"
    /\ UNCHANGED <<arg, ret, fs, out>>

CrossFileValidated(key, filename, r) ==
    IF r.exc # "" THEN Crash(r.exc)
    ELSE /\ mem' = [mem EXCEPT
                      !.all_errors = IF r.val # <<>> THEN AddErrors(@, key, r.val) ELSE @,
                      !.todo = @ \ {filename}]
         /\ UNCHANGED <<pc, out>>

\* the manifest validator on one file that is present and expected
CrossValidateStep ==
    /\ pc = "x_validate"
    /\ \E filename \in mem.todo :
          CrossFileValidated(filename, filename,
              validate_manifest(fs.manifests[filename], fs.now))
    /\ UNCHANGED <<arg, ret, fs>>

\* after the last of them: every manifest file present, orphans too, is
\* scanned for the versions it mentions
CrossScanVersions ==
    /\ pc = "x_validate"
    /\ mem.todo = {}
    /\ mem' = [mem EXCEPT
                 !.manifest_versions =
                     UNION {{<<AppOf(n), v>> : v \in VersionsOf(fs.manifests[n])} :
                               n \in DOMAIN fs.manifests},
                 !.todo = IF fs.notes_dir THEN DOMAIN fs.notes ELSE {}]
    /\ pc' = "x_notes"
    /\ UNCHANGED <<arg, ret, fs, out>>

\* the rest of the step for a notes file whose name parsed to a known app
CrossNotesValidated(filename, parsed, r) ==
    IF r.exc # "" THEN Crash(r.exc)
    ELSE /\ mem' = [mem EXCEPT
                      !.all_errors = IF r.val # <<>>
                                     THEN AddErrors(@, NotesKey(filename), r.val) ELSE @,
                      !.notes_versions = @ \cup {<<parsed.app_name.s, parsed.version.s>>},
                      !.todo = @ \ {filename}]
         /\ UNCHANGED <<pc, out>>

\* the step for one notes file, given what its filename parsed to
CrossNotesFile(filename, parsed) ==
    IF parsed.app_name = NoneV
    THEN /\ mem' = [mem EXCEPT
                      !.all_errors = AddErrors(@, NotesKey(filename),
                          <<Err("Invalid notes filename (expected {app}--{version}.yml)",
                                <<>>)>>),
                      !.todo = @ \ {filename}]
         /\ UNCHANGED <<pc, out>>
    ELSE IF parsed.app_name \notin mem.app_names
    THEN /\ mem' = [mem EXCEPT
                      !.all_errors = AddErrors(@, NotesKey(filename),
                          <<Err("App '{app_name}' not defined in config.yml",
                                <<parsed.app_name>>)>>),
                      !.todo = @ \ {filename}]
         /\ UNCHANGED <<pc, out>>
    ELSE CrossNotesValidated(filename, parsed,
             validate_notes_file(fs.notes[filename], mem.locales))

\* one notes file: its filename, then the notes validator
CrossNotesStep ==
    /\ pc = "x_notes"
    /\ \E filename \in mem.todo :
          CrossNotesFile(filename, validate_notes_filename(filename))
    /\ UNCHANGED <<arg, ret, fs>>

\* the errors of the reconciliation of the versions of the manifests with
\* those of the notes files, added to the mapping
RECURSIVE Reconciled(_, _, _)
Reconciled(all_errors, missing, unreferenced) ==
    IF missing # {}
    THEN LET p == CHOOSE x \in missing : TRUE
         IN  Reconciled(AddErrors(all_errors, NotesKey(NotesFilename(p[1], p[2])),
                            <<Err("Missing notes file for version {version}",
                                  <<StrV(p[2])>>)>>),
                        missing \ {p}, unreferenced)
    ELSE IF unreferenced # {}
    THEN LET p == CHOOSE x \in unreferenced : TRUE
         IN  Reconciled(AddErrors(all_errors, NotesKey(NotesFilename(p[1], p[2])),
                            <<Err("Notes file for version {version} not referenced in any manifest",
                                  <<StrV(p[2])>>)>>),
                        missing, unreferenced \ {p})
    ELSE all_errors

\* after the last notes file: both differences of the two sets of versions
CrossReconcile ==
    /\ pc = "x_notes"
    /\ mem.todo = {}
    /\ mem' = [mem EXCEPT
                 !.all_errors = Reconciled(@, mem.manifest_versions \ mem.notes_versions,
                                           mem.notes_versions \ mem.manifest_versions)]
    /\ pc' = "x_report"
    /\ UNCHANGED <<arg, ret, fs, out>>

\* failure with the report sorted by filename, or success
CrossReport ==
    /\ pc = "x_report"
    /\ IF DOMAIN mem.all_errors # {}
       THEN PrintAndExit(<<Line("Validation failed:"), Line("")>>
                         \o ReportLines(AsDict(mem.all_errors),
                                        SortedNames(DOMAIN mem.all_errors), 1), 1)
       ELSE PrintAndExit(<<Line("All files are valid")>>, 0)
    /\ UNCHANGED <<arg, ret, fs, mem>>

\* the file trees of the runs over manifests and notes: each family varies
\* one part of a valid corpus
CrossConfig ==
    FileOk(ConfigDoc(<<App(n_pos, ListV(<<n_live, n_test>>))>>, ListV(<<l_en_en, l_de_de>>)))

CrossConfigFiles ==
    {FileOk(MapV(<<StrV(s_apps)>>, <<ListV(<<App(n_pos, ListV(<<n_live, n_test>>))>>)>>)),
     FileOk(ListV(<<StrV(s_apps)>>)),
     FileNotFound}

CrossManifestNames == {<<"p", "o", "s", "-", "-", "l", "i", "v", "e", ".", "y", "m", "l">>, <<"p", "o", "s", "-", "-", "t", "e", "s", "t", ".", "y", "m", "l">>, <<"u", "n", "k", "n", "o", "w", "n", "-", "-", "a", "p", "p", ".", "y", "m", "l">>}

OneVersion == FileOk(ManifestDoc(<<v_1_0_0>>, <<GoodEntry>>))

TwoVersions ==
    FileOk(ManifestDoc(<<v_1_0_0, StrV(<<"2", ".", "0", ".", "0">>)>>, <<GoodEntry, GoodEntry>>))

CrossManifestPool ==
    {OneVersion, TwoVersions,
     FileOk(ManifestDoc(<<StrV(<<"1", ".", "0">>)>>, <<Entry(GoodTime, ListV(<<>>))>>)),
     FileIoError, FileOk(NoneV),
     FileOk(MapV(<<StrV(s_versions)>>, <<ListV(<<v_1_0_0>>)>>)),
     FileOk(IntV(5))}

CrossNotesNames ==
    {<<"p", "o", "s", "-", "-", "1", ".", "0", ".", "0", ".", "y", "m", "l">>, <<"p", "o", "s", "-", "-", "2", ".", "0", ".", "0", ".", "y", "m", "l">>, <<"p", "o", "s", "-", "-", "3", ".", "0", ".", "0", ".", "y", "m", "l">>, <<"b", "o", "-", "-", "1", ".", "0", ".", "0", ".", "y", "m", "l">>,
     <<"n", "o", "t", "e", "s", ".", "y", "m", "l">>}

GoodNotes == FileOk(NotesDoc(<<LocaleEntry(l_en_en, StrV(<<"f", "i", "x">>))>>))

CrossNotesPool ==
    {GoodNotes,
     FileOk(NotesDoc(<<LocaleEntry(l_en_en, StrV(<<"f", "i", "x">>)), LocaleEntry(l_de_de, StrV(<<"f", "i", "x">>))>>)),
     FileOk(NotesDoc(<<LocaleEntry(l_fr_fr, StrV(<<>>))>>)),
     FileYamlError,
     FileOk(IntV(5))}

\* the functions from at most n of the names to the pool
TreesOf(names, pool, n) ==
    UNION {[ns -> pool] : ns \in {x \in SUBSET names : Cardinality(x) <= n}}

Tree(config, manifests_dir, manifests, notes_dir, notes) ==
    [config |-> config, manifests_dir |-> manifests_dir, manifests |-> manifests,
     notes_dir |-> notes_dir, notes |-> notes, now |-> Now0]

CrossFileTrees ==
    {Tree(CrossConfig, TRUE, ms, ns[1], ns[2]) :
        ms \in TreesOf(CrossManifestNames, CrossManifestPool, MaxCrossFiles),
        ns \in {<<FALSE, <<>>>>, <<TRUE, <<>>>>,
                <<TRUE, [n \in {<<"p", "o", "s", "-", "-", "1", ".", "0", ".", "0", ".", "y", "m", "l">>} |-> GoodNotes]>>,
                <<TRUE, [n \in {<<"p", "o", "s", "-", "-", "1", ".", "0", ".", "0", ".", "y", "m", "l">>, <<"p", "o", "s", "-", "-", "2", ".", "0", ".", "0", ".", "y", "m", "l">>} |-> GoodNotes]>>}}
    \cup {Tree(CrossConfig, TRUE,
               [n \in {<<"p", "o", "s", "-", "-", "l", "i", "v", "e", ".", "y", "m", "l">>, <<"p", "o", "s", "-", "-", "t", "e", "s", "t", ".", "y", "m", "l">>} |->
                   IF n = <<"p", "o", "s", "-", "-", "l", "i", "v", "e", ".", "y", "m", "l">> THEN OneVersion ELSE second],
               TRUE, ns) :
             second \in {OneVersion, TwoVersions},
             ns \in TreesOf(CrossNotesNames, CrossNotesPool, MaxCrossFiles)}
    \cup {Tree(config, dir, IF dir THEN [n \in {<<"p", "o", "s", "-", "-", "l", "i", "v", "e", ".", "y", "m", "l">>} |-> OneVersion] ELSE <<>>,
               FALSE, <<>>) :
             config \in CrossConfigFiles \cup {CrossConfig}, dir \in BOOLEAN}

InitCross ==
    /\ pc = "x_config"
    /\ fs \in CrossFileTrees
    /\ mem = CrossMem0
    /\ out = Out0
    /\ arg = Idle /\ ret = NoRet

NextCross ==
    \/ CrossLoadConfig
    \/ CrossCheckManifestsDir
    \/ CrossCompareFiles
    \/ CrossValidateStep
    \/ CrossScanVersions
    \/ CrossNotesStep
    \/ CrossReconcile
    \/ CrossReport

SpecCross == InitCross /\ [][NextCross]_vars

----------------------------------------------------------------------------
(***************************************************************************)
(* Claims.                                                                 *)
(***************************************************************************)
\* exactly three dot-separated groups of one or more decimal digits, nothing else
ThreeDigitGroups(s) ==
    LET parts == Split(s, ".")
    IN  /\ Len(parts) = 3
        /\ \A i \in 1..3 :
              /\ parts[i] # <<>>
              /\ \A j \in DOMAIN parts[i] : parts[i][j] \in Range(DigitChars)

\* C9: for every string s, validate_semver(s) is true if and only if s is
\* exactly three dot-separated groups of one or more decimal digits, with no
\* prefix, no suffix and no trailing character of any kind.
C9_SemverExact ==
    pc = "done" =>
        /\ ret.exc = ""
        /\ ret.val <=> ThreeDigitGroups(arg.s)

\* C7: no validator raises to its caller: for every parsed document value,
\* validate_manifest, validate_notes_file and validate_config return an error
\* list.
C7_NoValidatorRaises == pc # "call" => ret.exc = ""

\* the version keys of the manifest a call was given
KeysOf(file) == Get(file.doc, StrV(s_versions)).keys

\* the subsequence of the keys validate_semver accepts
RECURSIVE ValidKeys(_)
ValidKeys(keys) ==
    IF keys = <<>> THEN <<>>
    ELSE IF validate_semver(Head(keys)).val
         THEN <<Head(keys)>> \o ValidKeys(Tail(keys))
         ELSE ValidKeys(Tail(keys))

\* (major, minor, patch) of a key as numbers
NumericTuple(key) ==
    LET groups == Split(SelectSeq(key.s, LAMBDA c : c # NL), ".")
    IN  [i \in 1..3 |-> DigitsVal(groups[i])]

\* major, then minor, then patch decides
NumericallyBefore(a, b) ==
    LET x == NumericTuple(a)
        y == NumericTuple(b)
    IN  \/ x[1] < y[1]
        \/ x[1] = y[1] /\ x[2] < y[2]
        \/ x[1] = y[1] /\ x[2] = y[2] /\ x[3] < y[3]

StrictlyAscending(keys) ==
    \A i \in 1..(Len(keys) - 1) : NumericallyBefore(keys[i], keys[i + 1])

OrderErrors(errors) ==
    {i \in DOMAIN errors :
        errors[i].msg = "Versions not in ascending order: {prev_version} -> {version}"}

C10_SameTuple ==
    /\ pc = "validate_manifest"
    /\ KeysOf(arg.file) = <<v_1_0_0, StrV(<<"0", "1", ".", "0", ".", "0">>)>>
    /\ OrderErrors(ret.val) # {}


(***************************************************************************)
(* Claims about main() of validate.py, in terms of the file tree fs.       *)
(***************************************************************************)
\* what validate_config does with the loaded configuration
ConfigChecked == script_validate_config(load_config(fs.config).config)

ConfigLoadFails == load_config(fs.config).error # NoErr

ConfigInvalid ==
    ~ConfigLoadFails /\ ConfigChecked.exc = "" /\ ConfigChecked.val.errors # <<>>

\* the run gets past the fatal checks
PastFatalChecks ==
    /\ ~ConfigLoadFails
    /\ ConfigChecked.exc = "" /\ ConfigChecked.val.errors = <<>>
    /\ fs.manifests_dir

\* what the run printed after the content of config.yml
Printed == SubSeq(out.lines, Len(ConfigBanner(fs.config)) + 1, Len(out.lines))

FailureReported ==
    /\ out.code = 1
    /\ Printed # <<>> /\ Printed[1] = Line("Validation failed:")

\* C1: a run that gets past the fatal checks ends in failure (exit code 1 and
\* a report that starts with 'Validation failed:') exactly when the mapping
\* of errors is not empty, and in success (exit code 0) exactly when it is
\* empty.
C1_FailsIffErrors ==
    (pc = "exit" /\ PastFatalChecks) =>
        /\ FailureReported <=> mem.all_errors.keys # <<>>
        /\ out.code = 0 <=> mem.all_errors.keys = <<>>

\* C2: when the configuration cannot be loaded, validate_config returns an
\* error or manifests/ does not exist, the run stops with exit code 1 before
\* it lists or validates a manifest file and records no error of a file; the
\* conditions of the configuration are checked before that of the directory.
C2_FatalStopsRun ==
    /\ (ConfigLoadFails \/ ConfigInvalid \/ ~fs.manifests_dir) =>
          /\ pc \in {"print_config", "load_config", "validate_config", "manifests_dir",
                     "exit"}
          /\ mem.actual_files = {} /\ mem.todo = {} /\ mem.all_errors = EmptyDict
          /\ pc = "exit" => out.code = 1
    /\ (ConfigLoadFails \/ ConfigInvalid) =>
          /\ pc # "manifests_dir"
          /\ \A i \in DOMAIN out.lines :
                out.lines[i] # Line("Error: manifests directory not found")
    /\ (ConfigLoadFails /\ pc = "exit") =>
          Printed = <<[text |-> "Error: {config_error}", name |-> <<>>,
                       err |-> load_config(fs.config).error]>>
    /\ (ConfigInvalid /\ pc = "exit") =>
          Printed = <<Line("Validation failed:"), Line(""), Line("config.yml:")>>
                    \o ErrorLines(ConfigChecked.val.errors)

\* an invalid configuration and no manifests directory: the run has stopped
\* on the configuration
C2_Witness ==
    /\ pc = "exit" /\ ConfigInvalid /\ ~fs.manifests_dir
    /\ out.code = 1

OrphanError == <<Err("Manifest file not defined in config.yml", <<>>)>>

MissingError ==
    <<Err("Missing manifest file (defined in config.yml but file not found)", <<>>)>>

ErrorsUnder(name) ==
    IF name \in Range(mem.all_errors.keys) THEN Item(mem.all_errors, name) ELSE <<>>

\* the two loops over orphan_files and missing_files are done
ManifestsCompared ==
    PastFatalChecks /\ pc \in {"validate", "report", "exit"}

\* C3: every file present and not expected has the error 'not defined in
\* config.yml' under its name, every file expected and not present has the
\* error 'Missing manifest file' under its name, no other name has either,
\* whatever the two sets are.
C3_OrphansAndMissing ==
    ManifestsCompared =>
        LET actual == DOMAIN fs.manifests
            expected == ConfigChecked.val.expected_files
        IN  /\ \A name \in actual \ expected : ErrorsUnder(name) = OrphanError
            /\ \A name \in expected \ actual : ErrorsUnder(name) = MissingError
            /\ \A name \in Range(mem.all_errors.keys) :
                  /\ ErrorsUnder(name) = OrphanError => name \in actual \ expected
                  /\ ErrorsUnder(name) = MissingError => name \in expected \ actual

\* a run with an orphan file and a missing file
C3_Witness ==
    /\ ManifestsCompared
    /\ \E name \in Range(mem.all_errors.keys) : ErrorsUnder(name) = OrphanError
    /\ \E name \in Range(mem.all_errors.keys) : ErrorsUnder(name) = MissingError


\* the configuration is valid, the manifest files present are the expected
\* ones, and validate_manifest finds no error in any of them
ValidCorpus ==
    /\ PastFatalChecks
    /\ DOMAIN fs.manifests = ConfigChecked.val.expected_files
    /\ \A name \in DOMAIN fs.manifests :
          script_validate_manifest(fs.manifests[name]) = Return(<<>>)

\* C5: the run over a corpus with a valid configuration, exactly the expected
\* manifest files and no error in any of them ends in success: no error is
\* recorded and the exit code is 0.  (main of validate.py opens no notes
\* file, so the notes of the corpus do not enter.)
C5_ValidCorpusSucceeds ==
    (ValidCorpus /\ pc = "exit") =>
        /\ out.code = 0
        /\ mem.all_errors = EmptyDict
        /\ Printed = <<Line("All manifest files are valid")>>

\* a valid corpus with a manifest file, after the run
C5_Witness ==
    /\ ValidCorpus /\ pc = "exit"
    /\ DOMAIN fs.manifests # {}
    /\ out.code = 0

\* the errors the run has to report under a filename, from the file tree
ExpectedErrors(name) ==
    LET actual == DOMAIN fs.manifests
        expected == ConfigChecked.val.expected_files
    IN  IF name \in actual \ expected THEN OrphanError
        ELSE IF name \in expected \ actual THEN MissingError
        ELSE script_validate_manifest(fs.manifests[name]).val

ExpectedNames ==
    {name \in DOMAIN fs.manifests \cup ConfigChecked.val.expected_files :
        ExpectedErrors(name) # <<>>}

\* the positions of the filename lines of what was printed
FileLinesAt == {i \in DOMAIN Printed : Printed[i].text = "{filename}:"}

\* C6: the failure report is the header 'Validation failed:', a blank line,
\* and then every filename that has errors exactly once, in ascending order,
\* each followed by the errors of that file: the report depends on the file
\* tree alone, not on the order in which the sets of filenames were iterated.
C6_ReportDeterministic ==
    (pc = "exit" /\ PastFatalChecks /\ FailureReported) =>
        /\ Printed[2] = Line("")
        /\ 3 \in FileLinesAt
        /\ \A i, j \in FileLinesAt : i < j => StrLess(Printed[i].name, Printed[j].name)
        /\ {Printed[i].name : i \in FileLinesAt} = ExpectedNames
        /\ \A i \in FileLinesAt :
              LET errors == ExpectedErrors(Printed[i].name)
                  next == i + Len(errors) + 1
              IN  /\ next <= Len(Printed) + 1
                  /\ \A k \in 1..Len(errors) : Printed[i + k] = ErrorLine(errors[k])
                  /\ next <= Len(Printed) => next \in FileLinesAt

\* a failure report of several files whose errors were recorded in another
\* order than the report lists them
C6_Witness ==
    /\ pc = "exit" /\ PastFatalChecks /\ FailureReported
    /\ Len(mem.all_errors.keys) >= 2
    /\ mem.all_errors.keys # SortedNames(Range(mem.all_errors.keys))

\* a run past the fatal checks that an exception ended
C1_CrashedRun == pc = "exit" /\ PastFatalChecks /\ mem.exc # ""


(***************************************************************************)
(* Claims about the validators on a file with a structural failure.        *)
(***************************************************************************)
\* the file cannot be read or parsed, or its document has no mapping under
\* key: the document is no mapping with that key
LacksMapping(file, key) ==
    \/ file.st # "ok"
    \/ ~IsDict(file.doc)
    \/ ~HasKey(file.doc, StrV(key))

\* unreadable, syntax error, no 'versions' key, 'versions' empty or null, or
\* 'versions' not a mapping
StructuralManifestFailure(file) ==
    \/ LacksMapping(file, s_versions)
    \/ ~Truthy(Get(file.doc, StrV(s_versions)))
    \/ ~IsDict(Get(file.doc, StrV(s_versions)))

\* unreadable, syntax error, no 'locales' key, 'locales' not a list or an
\* empty list
StructuralNotesFailure(file) ==
    \/ LacksMapping(file, s_locales)
    \/ ~IsList(Get(file.doc, StrV(s_locales)))
    \/ Get(file.doc, StrV(s_locales)).vals = <<>>

\* C8: a structural failure of a file yields exactly one error for it:
\* validate_manifest and validate_notes_file return a list of one error when
\* the file is unreadable, has a syntax error, lacks the top-level key, or
\* has a value of the wrong type or an empty one under it.
C8_OneErrorPerStructuralFailure ==
    /\ (pc = "validate_manifest" /\ StructuralManifestFailure(arg.file)) =>
          ret.exc = "" /\ Len(ret.val) = 1
    /\ (pc = "validate_notes_file" /\ StructuralNotesFailure(arg.file)) =>
          ret.exc = "" /\ Len(ret.val) = 1

\* the same for the calls that return
C8_WhenNoneRaises ==
    /\ (pc = "validate_manifest" /\ StructuralManifestFailure(arg.file) /\ ret.exc = "") =>
          Len(ret.val) = 1
    /\ (pc = "validate_notes_file" /\ StructuralNotesFailure(arg.file) /\ ret.exc = "") =>
          Len(ret.val) = 1

(***************************************************************************)
(* Claims about the run over manifests and notes, in terms of the file     *)
(* tree fs.                                                                *)
(***************************************************************************)
\* what comes after the app and "--" in a filename, without ".yml"
VersionPart(filename) ==
    SubSeq(filename, Len(AppOf(filename)) + 3, Len(filename) - Len(s_yml))

\* {app}--{version}.yml: lowercase letters, "--", three groups of digits
NotesNamed(filename) ==
    /\ AppOf(filename) # <<>> /\ AppOf(filename) # filename
    /\ \A i \in DOMAIN AppOf(filename) : AppOf(filename)[i] \in Range(LowerChars)
    /\ Len(filename) >= Len(AppOf(filename)) + 2 + Len(s_yml)
    /\ SubSeq(filename, Len(filename) - Len(s_yml) + 1, Len(filename)) = s_yml
    /\ ThreeDigitGroups(VersionPart(filename))

\* the (app, version) pairs the notes files of the tree declare
DeclaredPairs ==
    {<<AppOf(n), VersionPart(n)>> :
        n \in {m \in (IF fs.notes_dir THEN DOMAIN fs.notes ELSE {}) :
                  NotesNamed(m) /\ StrV(AppOf(m)) \in mem.app_names}}

\* the (app, version) pairs the manifest files of the tree mention
MentionedPairs ==
    UNION {{<<AppOf(n), v>> : v \in VersionsOf(fs.manifests[n])} : n \in DOMAIN fs.manifests}

MissingNotesError(version) ==
    Err("Missing notes file for version {version}", <<StrV(version)>>)

UnreferencedError(version) ==
    Err("Notes file for version {version} not referenced in any manifest", <<StrV(version)>>)

CrossErrorsUnder(key) ==
    IF key \in DOMAIN mem.all_errors THEN Range(mem.all_errors[key]) ELSE {}

C4_NoNotesDirectory ==
    /\ pc = "x_report"
    /\ ~fs.notes_dir
    /\ MentionedPairs # {}

(***************************************************************************)
(* Claims about the matcher list of a version, for a call of               *)
(* validate_manifest on a manifest whose versions have matcher lists.      *)
(***************************************************************************)
\* the versions mapping of the manifest of the call
VersionsArg == Get(arg.file.doc, StrV(s_versions))

\* the matcher list of version number i
MatchersOf(i) == Get(VersionsArg.vals[i], StrV(s_matchers)).vals

\* the matchers of type 'default' in a list: their positions
DefaultsIn(ms) ==
    {j \in DOMAIN ms : IsDict(ms[j]) /\ Get(ms[j], StrV(s_matcher_type)) = StrV(s_default)}

\* how often the error e is in the list errors
Count(errors, e) == Cardinality({i \in DOMAIN errors : errors[i] = e})

MissingDefaultError(version) ==
    Err("Version {version}: missing default matcher", <<version>>)

DuplicateDefaultError(version, n) ==
    Err("Version {version}: duplicate default matchers ({default_count} found)",
        <<version, IntV(n)>>)

\* the errors about duplicate defaults of a version, whatever the count
DuplicateDefaultErrors(errors, version) ==
    {i \in DOMAIN errors :
        /\ errors[i].msg = DuplicateDefaultError(version, 0).msg
        /\ errors[i].args[1] = version}

\* C11: a version with no matcher of type 'default' in its matcher list has
\* the error 'missing default matcher', one with N > 1 of them has the error
\* 'duplicate default matchers (N found)', one with exactly one has neither,
\* and no version has both.
C11_ExactlyOneDefault ==
    pc = "validate_manifest" =>
        /\ ret.exc = ""
        /\ \A i \in DOMAIN VersionsArg.keys :
              LET version == VersionsArg.keys[i]
                  n == Cardinality(DefaultsIn(MatchersOf(i)))
              IN  /\ Count(ret.val, MissingDefaultError(version)) = (IF n = 0 THEN 1 ELSE 0)
                  /\ Count(ret.val, DuplicateDefaultError(version, n)) = (IF n > 1 THEN 1 ELSE 0)
                  /\ Cardinality(DuplicateDefaultErrors(ret.val, version)) = (IF n > 1 THEN 1 ELSE 0)

\* a version with more than two default matchers has been validated
C11_Witness ==
    /\ pc = "validate_manifest"
    /\ Cardinality(DefaultsIn(MatchersOf(1))) > 2
    /\ Count(ret.val, DuplicateDefaultError(v_1_0_0, Cardinality(DefaultsIn(MatchersOf(1))))) = 1

\* a version without a default matcher has been validated
C11_NoDefault ==
    /\ pc = "validate_manifest"
    /\ MatchersOf(1) # <<>> /\ DefaultsIn(MatchersOf(1)) = {}
    /\ Count(ret.val, MissingDefaultError(v_1_0_0)) = 1

\* a matcher_value the code accepts for the type
ValidValueOf(type, value) ==
    IF type = StrV(s_country) THEN value \in VALID_COUNTRIES
    ELSE /\ IsStr(value)
         /\ Len(value.s) = HashLen
         /\ \A k \in DOMAIN value.s : value.s[k] \in ReHex

\* the positions of the matchers of a type with a value
Occurrences(ms, type, value) ==
    {j \in DOMAIN ms :
        /\ IsDict(ms[j])
        /\ Get(ms[j], StrV(s_matcher_type)) = type
        /\ Get(ms[j], StrV(s_matcher_value)) = value}

\* the position of the earlier matcher that the matcher at j repeats: the
\* first with its type and value
EarlierOne(ms, j) ==
    LET same == Occurrences(ms, Get(ms[j], StrV(s_matcher_type)),
                            Get(ms[j], StrV(s_matcher_value)))
    IN  CHOOSE k \in same : \A l \in same : k <= l

\* the positions that repeat a valid value of the type
Repeated(ms, type) ==
    {j \in DOMAIN ms :
        /\ IsDict(ms[j])
        /\ Get(ms[j], StrV(s_matcher_type)) = type
        /\ ValidValueOf(type, Get(ms[j], StrV(s_matcher_value)))
        /\ EarlierOne(ms, j) < j}

\* those whose severity differs from the earlier one's, and the others
Conflicting(ms, type) ==
    {j \in Repeated(ms, type) :
        Get(ms[j], StrV(s_severity)) # Get(ms[EarlierOne(ms, j)], StrV(s_severity))}

Duplicating(ms, type) == Repeated(ms, type) \ Conflicting(ms, type)

ValuesIn(ms) == {Get(ms[j], StrV(s_matcher_value)) : j \in {k \in DOMAIN ms : IsDict(ms[k])}}

ConflictingCountryError(version, country) ==
    Err("Version {version}: conflicting country matchers for '{country}' with different severities",
        <<version, country>>)

DuplicateCountryError(version, country) ==
    Err("Version {version}: duplicate country matcher for '{country}'", <<version, country>>)

ConflictingHashError(version) ==
    Err("Version {version}: conflicting location hash matchers with different severities",
        <<version>>)

DuplicateHashError(version) ==
    Err("Version {version}: duplicate location hash matcher", <<version>>)

\* C12: in the matcher list of a version, every matcher that repeats a valid
\* matcher_value of its type (country or location_hash) has one error:
\* 'conflicting' when its severity differs from that of the earlier matcher
\* with the value, 'duplicate' when it is the same; there is no such error
\* for a value under another type or in another version.
C12_RepeatedValues ==
    pc = "validate_manifest" =>
        /\ ret.exc = ""
        /\ \A i \in DOMAIN VersionsArg.keys :
              LET version == VersionsArg.keys[i]
                  ms == MatchersOf(i)
                  at(set, value) ==
                      Cardinality({j \in set : Get(ms[j], StrV(s_matcher_value)) = value})
              IN  /\ \A c \in ValuesIn(ms) :
                        /\ Count(ret.val, ConflictingCountryError(version, c))
                              = at(Conflicting(ms, StrV(s_country)), c)
                        /\ Count(ret.val, DuplicateCountryError(version, c))
                              = at(Duplicating(ms, StrV(s_country)), c)
                  /\ Count(ret.val, ConflictingHashError(version))
                        = Cardinality(Conflicting(ms, StrV(s_location_hash)))
                  /\ Count(ret.val, DuplicateHashError(version))
                        = Cardinality(Duplicating(ms, StrV(s_location_hash)))

\* a list with a country repeated twice, once with another severity and once
\* with the same
C12_Witness ==
    /\ pc = "validate_manifest"
    /\ Cardinality(Repeated(MatchersOf(1), StrV(s_country))) = 2
    /\ Conflicting(MatchersOf(1), StrV(s_country)) # {}
    /\ Duplicating(MatchersOf(1), StrV(s_country)) # {}

\* the value of a matcher of the first version again in the second version,
\* with another severity, and no error
C12_OtherVersion ==
    /\ pc = "validate_manifest"
    /\ Len(VersionsArg.keys) = 2
    /\ \E j \in DOMAIN MatchersOf(1), k \in DOMAIN MatchersOf(2) :
          /\ IsDict(MatchersOf(2)[k])
          /\ ValidValueOf(Get(MatchersOf(1)[j], StrV(s_matcher_type)),
                          Get(MatchersOf(1)[j], StrV(s_matcher_value)))
          /\ Get(MatchersOf(2)[k], StrV(s_matcher_type)) = Get(MatchersOf(1)[j], StrV(s_matcher_type))
          /\ Get(MatchersOf(2)[k], StrV(s_matcher_value)) = Get(MatchersOf(1)[j], StrV(s_matcher_value))
          /\ Get(MatchersOf(2)[k], StrV(s_severity)) # Get(MatchersOf(1)[j], StrV(s_severity))
    /\ ret = Return(<<MissingDefaultError(v_9_0_0)>>)
\* ---- C13: the window of released_at ----

\* the released_at of version number i, NoneV when the entry has none
ReleasedOf(i) == Get(VersionsArg.vals[i], StrV(s_released_at))

\* the values of released_at that are valid, and the instant each stands for
ValidReleased == {tc.v : tc \in TimeCases}

InstantOf(v) == (CHOOSE tc \in TimeCases : tc.v = v).inst

\* instant a is later than instant b
Later(a, b) ==
    \/ a[1] > b[1]
    \/ a[1] = b[1] /\ a[2] > b[2]
    \/ a[1] = b[1] /\ a[2] = b[2] /\ a[3] > b[3]

YearBefore(now) == <<now[1] - 365, now[2], now[3]>>

FutureError(version) == Err("Version {version}: released_at is in the future", <<version>>)

OldError(version) == Err("Version {version}: released_at is older than 12 months", <<version>>)

\* C13: for every entry with a valid released_at, validate_manifest reports
\* 'released_at is in the future' exactly when the timestamp is later than
\* the validation time, and 'released_at is older than 12 months' exactly
\* when it is earlier than the validation time minus 365 days; a timestamp
\* equal to either limit is accepted, and a naive one is compared as UTC.
C13_ReleasedAtWindow ==
    pc = "validate_manifest" =>
        /\ ret.exc = ""
        /\ \A i \in DOMAIN VersionsArg.keys :
              ReleasedOf(i) \in ValidReleased =>
                  LET version == VersionsArg.keys[i]
                      t == InstantOf(ReleasedOf(i))
                  IN  /\ Count(ret.val, FutureError(version))
                             = (IF Later(t, arg.now) THEN 1 ELSE 0)
                      /\ Count(ret.val, OldError(version))
                             = (IF Later(YearBefore(arg.now), t) THEN 1 ELSE 0)

\* a naive timestamp equal to the validation time minus 365 days has been
\* accepted
C13_Witness ==
    /\ pc = "validate_manifest"
    /\ Len(VersionsArg.keys) = 1
    /\ ReleasedOf(1) \in ValidReleased
    /\ ReleasedOf(1).n = 0
    /\ InstantOf(ReleasedOf(1)) = YearBefore(arg.now)
    /\ ret = Return(<<>>)

\* a timestamp with an offset that is one second after the validation time
\* has been reported
C13_FutureByOffset ==
    /\ pc = "validate_manifest"
    /\ ReleasedOf(1) = StrV(<<"2", "0", "2", "6", "-", "0", "1", "-", "2", "0", "T", "0", "7", ":", "0", "0", ":", "0", "1", "-", "0", "5", ":", "0", "0">>)
    /\ arg.now = NowWhole
    /\ ret = Return(<<FutureError(v_1_0_0)>>)

\* ---- C14: chronological order ----

\* the entries before number i that have a valid released_at
ValidBefore(i) == {j \in 1..(i - 1) : ReleasedOf(j) \in ValidReleased}

\* the entry with a valid released_at that precedes entry number i
PreviousOf(i) == CHOOSE j \in ValidBefore(i) : \A k \in ValidBefore(i) : k <= j

\* entry number i is earlier than the entry before it
EarlierThanPrevious(i) ==
    /\ ReleasedOf(i) \in ValidReleased
    /\ ValidBefore(i) # {}
    /\ Later(InstantOf(ReleasedOf(PreviousOf(i))), InstantOf(ReleasedOf(i)))

ChronoError(version, prev) ==
    Err("Version {version}: released_at is not in chronological order (earlier than {prev_version_for_date})",
        <<version, prev>>)

\* the errors about the chronological order of a version, whatever the
\* version they name
ChronoErrors(errors, version) ==
    {k \in DOMAIN errors :
        /\ errors[k].msg = "Version {version}: released_at is not in chronological order (earlier than {prev_version_for_date})"
        /\ errors[k].args[1] = version}

\* C14: an entry whose released_at is earlier than the released_at of the
\* entry before it is reported as not in chronological order, and an equal
\* one is accepted; the report does not depend on the check that the version
\* numbers ascend, which is made of the keys alone.
C14_ChronologicalOrder ==
    pc = "validate_manifest" =>
        /\ ret.exc = ""
        /\ \A i \in DOMAIN VersionsArg.keys :
              LET version == VersionsArg.keys[i]
              IN  IF EarlierThanPrevious(i)
                  THEN /\ Count(ret.val, ChronoError(version, VersionsArg.keys[PreviousOf(i)])) = 1
                       /\ Cardinality(ChronoErrors(ret.val, version)) = 1
                  ELSE ChronoErrors(ret.val, version) = {}
        /\ OrderErrors(ret.val) = {} <=> StrictlyAscending(ValidKeys(KeysOf(arg.file)))

\* ascending version numbers whose second released_at is earlier than the
\* first: the chronological error alone
C14_Witness ==
    /\ pc = "validate_manifest"
    /\ Len(VersionsArg.keys) = 2
    /\ StrictlyAscending(ValidKeys(KeysOf(arg.file)))
    /\ EarlierThanPrevious(2)
    /\ ChronoErrors(ret.val, VersionsArg.keys[2]) # {}
    /\ OrderErrors(ret.val) = {}

\* descending version numbers with equal released_at: the ascending-order
\* error alone
C14_SemverAlone ==
    /\ pc = "validate_manifest"
    /\ Len(VersionsArg.keys) = 2
    /\ ~StrictlyAscending(ValidKeys(KeysOf(arg.file)))
    /\ ReleasedOf(1) \in ValidReleased /\ ReleasedOf(2) \in ValidReleased
    /\ ReleasedOf(1) # ReleasedOf(2)
    /\ InstantOf(ReleasedOf(1)) = InstantOf(ReleasedOf(2))
    /\ OrderErrors(ret.val) # {}
    /\ ChronoErrors(ret.val, VersionsArg.keys[2]) = {}

\* both orders violated by the same entry, and both reported
C14_Both ==
    /\ pc = "validate_manifest"
    /\ Len(VersionsArg.keys) = 2
    /\ ~StrictlyAscending(ValidKeys(KeysOf(arg.file)))
    /\ EarlierThanPrevious(2)
    /\ OrderErrors(ret.val) # {}
    /\ ChronoErrors(ret.val, VersionsArg.keys[2]) # {}

\* ---- C15: two calls in succession ----

\* C15: running validate_manifest twice in succession on the same unmodified
\* file returns identical error lists, the same errors in the same order,
\* whatever validation time each of the two calls reads.
C15_SameListTwice ==
    pc = "validate_manifest_again" => ret = mem

\* the two calls read the same validation time: the lists are the same
C15_SameClock ==
    pc = "validate_manifest_again" /\ arg.later = arg.now => ret = mem

\* both calls have returned, and the first list has an error
C15_BothReturned ==
    /\ pc = "validate_manifest_again"
    /\ arg.later # arg.now
    /\ mem.exc = "" /\ mem.val # <<>>

\* ---- C16: validate_location_hash ----

LowerHexDigits ==
    {"0", "1", "2", "3", "4", "5", "6", "7", "8", "9", "a", "b", "c", "d", "e", "f"}

\* exactly 64 characters, every one a lowercase hex digit
IsLocationHash(s) == Len(s) = 64 /\ \A i \in DOMAIN s : s[i] \in LowerHexDigits

\* C16: for all strings s, validate_location_hash(s) is true if and only if
\* s is exactly 64 characters long and every character is in [a-f0-9];
\* uppercase hex and strings of length 63 or 65 are rejected.
C16_HashExact ==
    pc = "validate_location_hash" => ret = Return(IsLocationHash(arg.s))

\* the strings of the claim's examples are judged as it says: 64 lowercase
\* hex digits accepted, uppercase and 63 or 65 hex digits rejected
C16_HexOnly ==
    pc = "validate_location_hash" /\ (\A i \in DOMAIN arg.s : arg.s[i] \in LowerHexDigits \cup {"A", "F"})
        => ret = Return(IsLocationHash(arg.s))

\* ---- C17: validate_iso8601 ----

\* whether the value is a timestamp
IsTimestamp(v) == (CHOOSE c \in IsoCases : c.v = v).valid

\* C17: validate_iso8601 is total: it returns true for a structured
\* timestamp and for a string that is an ISO 8601 timestamp, a trailing Z
\* included, and returns false without raising for every other input:
\* missing values, numbers, other scalars that are not strings, and the
\* date-only values the document parser produces.
C17_Iso8601Total ==
    pc = "validate_iso8601" => ret = Return(IsTimestamp(arg))

\* the same for every input that is not a date or a binary value of the
\* document parser
C17_ExceptDates ==
    pc = "validate_iso8601" /\ arg.ty \notin {"date", "bytes"}
        => ret = Return(IsTimestamp(arg))

\* ---- C18: the expected manifest filenames ----

\* the configuration validate_config is called with, and its list of apps
ConfigArg == arg.file.doc

AppsArg == Get(ConfigArg, StrV(s_apps)).vals

LowerLetters ==
    {"a", "b", "c", "d", "e", "f", "g", "h", "i", "j", "k", "l", "m",
     "n", "o", "p", "q", "r", "s", "t", "u", "v", "w", "x", "y", "z"}

\* a name: a non-empty string of lowercase letters
IsName(v) == IsStr(v) /\ v.s # <<>> /\ \A i \in DOMAIN v.s : v.s[i] \in LowerLetters

AppNameOf(i) == Get(AppsArg[i], StrV(s_name))

EnvsOf(i) == Get(AppsArg[i], StrV(s_environments))

\* app number i is an object with a name
NamedApp(i) == IsDict(AppsArg[i]) /\ IsName(AppNameOf(i))

\* app number i has the name of an app before it
DuplicateApp(i) == NamedApp(i) /\ \E k \in 1..(i - 1) : NamedApp(k) /\ AppNameOf(k) = AppNameOf(i)

\* the valid (app, environment) pairs of the configuration
ValidPairs ==
    {<<AppNameOf(i), e>> : <<i, e>> \in
        {<<i, EnvsOf(i).vals[j]>> : <<i, j>> \in
            {p \in (DOMAIN AppsArg) \X (1..4) :
                /\ NamedApp(p[1]) /\ ~DuplicateApp(p[1])
                /\ IsList(EnvsOf(p[1]))
                /\ p[2] \in DOMAIN EnvsOf(p[1]).vals
                /\ IsName(EnvsOf(p[1]).vals[p[2]])}}}

FilenameOf(pair) == pair[1].s \o <<"-", "-">> \o pair[2].s \o <<".", "y", "m", "l">>

\* C18: validate_config returns as expected manifest filenames exactly the
\* set of '{app}--{environment}.yml' over every valid (app, environment)
\* pair of the configuration, one filename per pair and nothing else; apps
\* [{name: pos, environments: [live, staging]}] with locales [en-en] yields
\* exactly pos--live.yml and pos--staging.yml, and no error.
C18_ExpectedFilenames ==
    pc = "validate_config" /\ IsDict(ConfigArg) /\ IsList(Get(ConfigArg, StrV(s_apps)))
                           /\ AppsArg # <<>> =>
        /\ ret.exc = ""
        /\ ret.val.expected_files = {FilenameOf(p) : p \in ValidPairs}
        /\ Cardinality(ret.val.expected_files) = Cardinality(ValidPairs)
        /\ ConfigArg = ConfigDoc(<<App(n_pos, ListV(<<n_live, n_staging>>))>>, ListV(<<l_en_en>>))
              => /\ ret.val.expected_files
                       = {<<"p", "o", "s", "-", "-", "l", "i", "v", "e", ".", "y", "m", "l">>,
                          <<"p", "o", "s", "-", "-", "s", "t", "a", "g", "i", "n", "g", ".", "y", "m", "l">>}
                 /\ ret.val.errors = <<>>

\* the same when no app has a name that ends with a newline
C18_WithoutNewline ==
    (\A i \in DOMAIN AppsArg : IsDict(AppsArg[i]) /\ IsStr(AppNameOf(i)) =>
          \A k \in DOMAIN AppNameOf(i).s : AppNameOf(i).s[k] # "\n")
        => C18_ExpectedFilenames

\* ---- C19: a configuration without a list of apps ----

\* the configuration is empty, has no 'apps' key, or its 'apps' is not a
\* non-empty list
NoAppsList ==
    \/ ~Truthy(ConfigArg)
    \/ ~IsDict(ConfigArg)
    \/ ~HasKey(ConfigArg, StrV(s_apps))
    \/ ~IsList(Get(ConfigArg, StrV(s_apps)))
    \/ Get(ConfigArg, StrV(s_apps)).vals = <<>>

\* C19: when the configuration is empty or None, lacks the 'apps' key, or
\* its 'apps' is not a non-empty list, validate_config returns exactly one
\* error together with empty expected filenames, empty app names and empty
\* locales, and no error about an app.
C19_SingleError ==
    pc = "validate_config" /\ NoAppsList =>
        /\ ret.exc = ""
        /\ ret.val.expected_files = {} /\ ret.val.app_names = {} /\ ret.val.locales = {}
        /\ ret.val.errors \in
              {<<Err("config.yml: missing 'apps' key", <<>>)>>,
               <<Err("config.yml: 'apps' must be a non-empty list", <<>>)>>}

\* the same for a configuration that is empty or an object
C19_EmptyOrObject ==
    pc = "validate_config" /\ NoAppsList /\ (~Truthy(ConfigArg) \/ IsDict(ConfigArg)) =>
        /\ ret.exc = ""
        /\ ret.val.expected_files = {} /\ ret.val.app_names = {} /\ ret.val.locales = {}
        /\ ret.val.errors \in
              {<<Err("config.yml: missing 'apps' key", <<>>)>>,
               <<Err("config.yml: 'apps' must be a non-empty list", <<>>)>>}

\* ---- C20: duplicates do not stop validate_config ----

RECURSIVE FlattenSeq(_)
FlattenSeq(seqs) == IF seqs = <<>> THEN <<>> ELSE Head(seqs) \o FlattenSeq(Tail(seqs))

ButLast(seq) == SubSeq(seq, 1, Len(seq) - 1)

\* what validate_config returns for a configuration of the one app a and
\* no locales key: the errors about a, then the error about the key
AppAlone(a) == validate_config(MapV(<<StrV(s_apps)>>, <<ListV(<<a>>)>>)).val

\* the error e of an app alone, as the error of the app number k of a list
AtIndex(e, k) ==
    IF e.msg \in {"config.yml: app at index {i} must be an object",
                  "config.yml: app at index {i} missing 'name'"}
    THEN [e EXCEPT !.args = <<IntV(k - 1)>>]
    ELSE e

\* the errors about app number k when it is checked on its own
AppErrors(k) ==
    LET errors == ButLast(AppAlone(AppsArg[k]).errors)
    IN  [n \in DOMAIN errors |-> AtIndex(errors[n], k)]

\* app number k has a name the validator accepts, and an app before it has
\* the same name
DuplicateAt(k) ==
    /\ AppAlone(AppsArg[k]).app_names # {}
    /\ \E i \in 1..(k - 1) : AppAlone(AppsArg[i]).app_names = AppAlone(AppsArg[k]).app_names

DuplicateAppError(app_name) == Err("config.yml: duplicate app name '{app_name}'", <<app_name>>)

DuplicateEnvError(env, app_name) ==
    Err("config.yml: duplicate environment '{env}' in app '{app_name}'", <<env, app_name>>)

\* what the list of apps contributes to the errors: for a duplicate app its
\* own error, for any other app the errors it has on its own
AppPart(k) ==
    IF DuplicateAt(k) THEN <<DuplicateAppError(AppNameOf(k))>> ELSE AppErrors(k)

\* what validate_config returns for one valid app and the locales section
\* of the configuration: the errors of the locales section
LocalesAlone ==
    validate_config(
        IF HasKey(ConfigArg, StrV(s_locales))
        THEN ConfigDoc(<<App(n_pos, ListV(<<n_live>>))>>, Get(ConfigArg, StrV(s_locales)))
        ELSE MapV(<<StrV(s_apps)>>, <<ListV(<<App(n_pos, ListV(<<n_live>>))>>)>>)).val

\* app number k gets as far as its non-empty list of environments
EnvsChecked(k) ==
    /\ AppAlone(AppsArg[k]).app_names # {}
    /\ IsList(EnvsOf(k)) /\ EnvsOf(k).vals # <<>>

\* the app number k with its environment number j alone
EnvAlone(k, j) == AppAlone(App(AppNameOf(k), ListV(<<EnvsOf(k).vals[j]>>)))

\* environment number j of app number k is accepted by the validator, and
\* an environment before it is the same
DuplicateEnvAt(k, j) ==
    /\ EnvAlone(k, j).expected_files # {}
    /\ \E i \in 1..(j - 1) : EnvsOf(k).vals[i] = EnvsOf(k).vals[j]

EnvPart(k, j) ==
    IF DuplicateEnvAt(k, j) THEN <<DuplicateEnvError(EnvsOf(k).vals[j], AppNameOf(k))>>
    ELSE ButLast(EnvAlone(k, j).errors)

\* C20: in validate_config a duplicate app name and a duplicate environment
\* name within one app are each flagged with their own error, and neither
\* stops validation: every later app, every later environment of the same
\* app and the locales section are still checked, and all their errors are
\* in the returned list.  The returned errors are, in order, for each app
\* its duplicate error or the errors it has on its own, then the errors of
\* the locales section; the errors of an app are, for each environment, its
\* duplicate error or the errors it has on its own.
C20_DuplicatesDoNotStop ==
    pc = "validate_config" /\ IsDict(ConfigArg) /\ IsList(Get(ConfigArg, StrV(s_apps)))
                           /\ AppsArg # <<>> =>
        /\ ret.exc = ""
        /\ ret.val.errors
              = FlattenSeq([k \in DOMAIN AppsArg |-> AppPart(k)]) \o LocalesAlone.errors
        /\ ret.val.expected_files
              = UNION {AppAlone(AppsArg[k]).expected_files :
                          k \in {n \in DOMAIN AppsArg : ~DuplicateAt(n)}}
        /\ ret.val.locales = LocalesAlone.locales
        /\ \A k \in DOMAIN AppsArg :
              EnvsChecked(k) =>
                  /\ ButLast(AppAlone(AppsArg[k]).errors)
                        = FlattenSeq([j \in DOMAIN EnvsOf(k).vals |-> EnvPart(k, j)])
                  /\ AppAlone(AppsArg[k]).expected_files
                        = UNION {EnvAlone(k, j).expected_files :
                                    j \in {n \in DOMAIN EnvsOf(k).vals : ~DuplicateEnvAt(k, n)}}

\* a duplicate app name followed by an app that is not an object, in a
\* configuration without the required locale: all three errors returned
C20_Witness ==
    /\ pc = "validate_config"
    /\ IsDict(ConfigArg) /\ Len(AppsArg) = 3
    /\ DuplicateAt(2) /\ ~IsDict(AppsArg[3])
    /\ Get(ConfigArg, StrV(s_locales)) = ListV(<<l_de_de>>)
    /\ Count(ret.val.errors, DuplicateAppError(AppNameOf(2))) = 1
    /\ Count(ret.val.errors, Err("config.yml: app at index {i} must be an object", <<IntV(2)>>)) = 1
    /\ Count(ret.val.errors, Err("config.yml: missing required locale '{REQUIRED_LOCALE}'", <<>>)) = 1

\* a duplicate environment followed by an invalid and a valid one: both
\* errors returned and the filename of the valid one expected
C20_LaterEnvironments ==
    /\ pc = "validate_config"
    /\ IsDict(ConfigArg) /\ Len(AppsArg) = 1
    /\ EnvsChecked(1) /\ Len(EnvsOf(1).vals) = 4
    /\ DuplicateEnvAt(1, 2)
    /\ Count(ret.val.errors, DuplicateEnvError(n_live, n_bo)) = 1
    /\ \E n \in DOMAIN ret.val.errors :
          ret.val.errors[n].msg = "config.yml: invalid environment '{env}' in app '{app_name}' (must be lowercase letters only)"
    /\ ManifestFilename(n_bo.s, n_test.s) \in ret.val.expected_files

\* ---- C21: the locales section of the configuration ----

LocalesArg == Get(ConfigArg, StrV(s_locales))

\* a locale name: a non-empty string
IsLocaleName(v) == IsStr(v) /\ v.s # <<>>

InvalidLocaleError(locale) ==
    Err("config.yml: invalid locale '{locale}' (must be a non-empty string)", <<locale>>)

DuplicateLocaleError(locale) == Err("config.yml: duplicate locale '{locale}'", <<locale>>)

\* the error of item number k of the list items, if it has one
LocaleItemErrors(items, k) ==
    IF ~IsLocaleName(items[k]) THEN <<InvalidLocaleError(items[k])>>
    ELSE IF \E i \in 1..(k - 1) : items[i] = items[k] THEN <<DuplicateLocaleError(items[k])>>
    ELSE <<>>

\* the errors the locales section is to have, in the order of the items
LocalesSectionErrors ==
    IF ~HasKey(ConfigArg, StrV(s_locales))
    THEN <<Err("config.yml: missing 'locales' key", <<>>)>>
    ELSE IF ~IsList(LocalesArg) \/ LocalesArg.vals = <<>>
    THEN <<Err("config.yml: 'locales' must be a non-empty list", <<>>)>>
    ELSE FlattenSeq([k \in DOMAIN LocalesArg.vals |-> LocaleItemErrors(LocalesArg.vals, k)])
         \o (IF \E k \in DOMAIN LocalesArg.vals : LocalesArg.vals[k] = StrV(<<"e", "n", "-", "e", "n">>)
             THEN <<>>
             ELSE <<Err("config.yml: missing required locale '{REQUIRED_LOCALE}'", <<>>)>>)

\* the distinct valid locale names of the configuration
LocaleNames ==
    IF IsList(LocalesArg)
    THEN {LocalesArg.vals[k] : k \in {n \in DOMAIN LocalesArg.vals : IsLocaleName(LocalesArg.vals[n])}}
    ELSE {}

IsLocaleError(e) ==
    e.msg \in {"config.yml: missing 'locales' key",
               "config.yml: 'locales' must be a non-empty list",
               "config.yml: invalid locale '{locale}' (must be a non-empty string)",
               "config.yml: duplicate locale '{locale}'",
               "config.yml: missing required locale '{REQUIRED_LOCALE}'"}

\* C21: validate_config reports an error when the 'locales' key is absent,
\* when 'locales' is not a non-empty list, for each locale that is not a
\* non-empty string, for each repeated locale, and when 'en-en' is not among
\* the locales; it does so whatever the checks of the apps found, and the
\* returned locale set is exactly the set of distinct valid locale names.
C21_LocalesSection ==
    pc = "validate_config" /\ IsDict(ConfigArg) /\ IsList(Get(ConfigArg, StrV(s_apps)))
                           /\ AppsArg # <<>> =>
        /\ ret.exc = ""
        /\ SelectSeq(ret.val.errors, IsLocaleError) = LocalesSectionErrors
        /\ ret.val.locales = LocaleNames

\* a list with an invalid and a repeated locale and without en-en, after
\* apps that have errors: the three locale errors are returned
C21_Witness ==
    /\ pc = "validate_config"
    /\ IsList(LocalesArg) /\ Len(LocalesArg.vals) = 3
    /\ \E n \in DOMAIN ret.val.errors : ~IsLocaleError(ret.val.errors[n])
    /\ Count(ret.val.errors, InvalidLocaleError(IntV(5))) = 1
    /\ Count(ret.val.errors, DuplicateLocaleError(l_de_de)) = 1
    /\ Count(ret.val.errors, Err("config.yml: missing required locale '{REQUIRED_LOCALE}'", <<>>)) = 1
    /\ ret.val.locales = {l_de_de}

\* ---- C22: locale names of a notes file ----

\* the entries of the notes file validate_notes_file is called with
EntriesArg == Get(arg.file.doc, StrV(s_locales)).vals

EntryNameOf(i) == Get(EntriesArg[i], StrV(s_name))

\* entry number i is an object whose name is a non-empty string
NamedEntry(i) == IsDict(EntriesArg[i]) /\ IsLocaleName(EntryNameOf(i))

\* entry number i has the name of an entry before it
RepeatedEntry(i) ==
    NamedEntry(i) /\ \E k \in 1..(i - 1) : NamedEntry(k) /\ EntryNameOf(k) = EntryNameOf(i)

RequiredLocaleError == Err("Missing required locale '{REQUIRED_LOCALE}' (needed for fallback)", <<>>)

DuplicateEntryError(locale_name) == Err("Duplicate locale entry: {locale_name}", <<locale_name>>)

UndefinedLocaleError(locale_name) ==
    Err("Locale '{locale_name}' not defined in config.yml", <<locale_name>>)

\* the errors of entry number i when the file has that entry alone, as the
\* errors of entry number i: without the error about the required locale
EntryAlone(i) ==
    LET errors == validate_notes_file(FileOk(NotesDoc(<<EntriesArg[i]>>)), arg.valid_locales).val
        own == IF errors # <<>> /\ errors[Len(errors)] = RequiredLocaleError
               THEN ButLast(errors) ELSE errors
    IN  [n \in DOMAIN own |->
            IF own[n].args # <<>> /\ own[n].args[1] = IntV(0)
            THEN [own[n] EXCEPT !.args = <<IntV(i - 1)>>]
            ELSE own[n]]

\* what entry number i contributes to the errors
EntryPart(i) ==
    (IF RepeatedEntry(i) THEN <<DuplicateEntryError(EntryNameOf(i))>> ELSE <<>>) \o EntryAlone(i)

\* the named entries with the given name
EntriesNamed(name) == {i \in DOMAIN EntriesArg : NamedEntry(i) /\ EntryNameOf(i) = name}

\* C22: in validate_notes_file every entry whose name is a non-empty string
\* is checked for membership in the valid locales the caller passed ('not
\* defined in config.yml') and for repetition within the file ('Duplicate
\* locale entry'); a duplicate does not stop processing: the membership and
\* notes checks of the duplicate entry, and all later entries, are still
\* made.  The returned errors are, for each entry in order, its duplicate
\* error if it repeats a name and then the errors it has on its own.
C22_LocaleNames ==
    pc = "validate_notes_file" =>
        /\ ret.exc = ""
        /\ \A i \in DOMAIN EntriesArg :
              NamedEntry(i) =>
                  /\ Count(ret.val, UndefinedLocaleError(EntryNameOf(i)))
                        = (IF EntryNameOf(i) \in arg.valid_locales THEN 0
                           ELSE Cardinality(EntriesNamed(EntryNameOf(i))))
                  /\ Count(ret.val, DuplicateEntryError(EntryNameOf(i)))
                        = Cardinality(EntriesNamed(EntryNameOf(i))) - 1
        /\ SelectSeq(ret.val, LAMBDA e : e # RequiredLocaleError)
              = FlattenSeq([i \in DOMAIN EntriesArg |-> EntryPart(i)])

\* a repeated name that is in no configuration, with notes that are not a
\* string, followed by an entry that is not an object: the duplicate, the
\* membership, the notes and the later entry's error are all returned
C22_Witness ==
    /\ pc = "validate_notes_file"
    /\ Len(EntriesArg) = 3
    /\ RepeatedEntry(2) /\ EntryNameOf(2) \notin arg.valid_locales
    /\ ~IsDict(EntriesArg[3])
    /\ Len(EntryAlone(2)) = 2
    /\ Count(ret.val, DuplicateEntryError(EntryNameOf(2))) = 1
    /\ Count(ret.val, UndefinedLocaleError(EntryNameOf(2))) = 2
    /\ Count(ret.val, Err("Locale entry {i}: must be an object", <<IntV(2)>>)) = 1

\* ---- C23: the notes of a locale entry ----

EntryNotesOf(i) == Get(EntriesArg[i], StrV(s_notes))

\* the error the notes of entry number i are to have, if any: absent notes
\* (no notes key, or a notes key without a value), notes that are not a
\* string, empty notes, and notes of more than 500 characters
NotesErrorOf(i) ==
    LET name == EntryNameOf(i)
        notes == EntryNotesOf(i)
    IN  IF ~HasKey(EntriesArg[i], StrV(s_notes)) \/ notes = NoneV
        THEN <<Err("Locale '{locale_name}': missing 'notes' field", <<name>>)>>
        ELSE IF ~IsStr(notes)
        THEN <<Err("Locale '{locale_name}': 'notes' must be a string", <<name>>)>>
        ELSE IF Len(notes.s) = 0
        THEN <<Err("Locale '{locale_name}': notes cannot be empty", <<name>>)>>
        ELSE IF Len(notes.s) > 500
        THEN <<Err("Locale '{locale_name}': notes exceeds {NOTES_MAX_LENGTH} characters ({notes_length})",
                   <<name, IntV(Len(notes.s))>>)>>
        ELSE <<>>

IsNotesError(e) ==
    e.msg \in {"Locale '{locale_name}': missing 'notes' field",
               "Locale '{locale_name}': 'notes' must be a string",
               "Locale '{locale_name}': notes cannot be empty",
               "Locale '{locale_name}': notes exceeds {NOTES_MAX_LENGTH} characters ({notes_length})"}

C23_MissingAndEmpty ==
    /\ pc = "validate_notes_file"
    /\ Len(EntriesArg) = 2
    /\ NamedEntry(1) /\ ~HasKey(EntriesArg[1], StrV(s_notes))
    /\ NamedEntry(2) /\ EntryNotesOf(2) = StrV(<<>>)
    /\ SelectSeq(ret.val, IsNotesError)
          = <<Err("Locale '{locale_name}': missing 'notes' field", <<EntryNameOf(1)>>),
              Err("Locale '{locale_name}': notes cannot be empty", <<EntryNameOf(2)>>)>>

\* ---- C24: the required locale of a notes file ----

\* some entry has the name en-en
HasEnEn ==
    \E i \in DOMAIN EntriesArg :
        IsDict(EntriesArg[i]) /\ EntryNameOf(i) = StrV(<<"e", "n", "-", "e", "n">>)

\* C24: after all entries of a notes file are processed, validate_notes_file
\* reports "Missing required locale 'en-en'" if and only if no entry's name
\* equals 'en-en', whatever other errors the entries produced; it reports
\* it once, as the last error.
C24_RequiredLocale ==
    pc = "validate_notes_file" /\ EntriesArg # <<>> =>
        /\ ret.exc = ""
        /\ Count(ret.val, RequiredLocaleError) = (IF HasEnEn THEN 0 ELSE 1)
        /\ ~HasEnEn => ret.val[Len(ret.val)] = RequiredLocaleError

\* entries with errors of their own and none named en-en: the error about
\* the required locale follows theirs
C24_Witness ==
    /\ pc = "validate_notes_file"
    /\ EntriesArg # <<>> /\ ~HasEnEn
    /\ Len(ret.val) > 2
    /\ ret.val[Len(ret.val)] = RequiredLocaleError

\* an entry named en-en with an error of its own: no error about the
\* required locale
C24_PresentWithErrors ==
    /\ pc = "validate_notes_file"
    /\ HasEnEn
    /\ ret.exc = "" /\ ret.val # <<>>
    /\ Count(ret.val, RequiredLocaleError) = 0

\* ---- C25: validate_notes_filename ----

\* C25: for all strings name, validate_notes_filename(name) returns the
\* pair (app, version) if and only if name is exactly one or more lowercase
\* letters, then '--', then three dot-separated digit groups, then '.yml',
\* the returned parts being those of the name; for every other string it
\* returns (None, None).
C25_FilenameExact ==
    pc = "validate_notes_filename" =>
        ret = (IF arg.valid
               THEN [app_name |-> StrV(arg.app), version |-> StrV(arg.version)]
               ELSE [app_name |-> NoneV, version |-> NoneV])

\* the same for the names that do not end with a newline
C25_WithoutNewline ==
    pc = "validate_notes_filename"
    /\ (arg.filename = <<>> \/ arg.filename[Len(arg.filename)] # "\n")
        => ret = (IF arg.valid
                  THEN [app_name |-> StrV(arg.app), version |-> StrV(arg.version)]
                  ELSE [app_name |-> NoneV, version |-> NoneV])

\* ---- C26: invalid keys and the ordering check ----

\* the keys of well-formed semver format, in file order
SemverKeys(keys) == SelectSeq(keys, LAMBDA k : ThreeDigitGroups(k.s))

InvalidFormatError(version) == Err("Invalid semantic version format: {version}", <<version>>)

AscendingOrderError(prev_version, version) ==
    Err("Versions not in ascending order: {prev_version} -> {version}", <<prev_version, version>>)

\* one error for each adjacent pair of vs that does not ascend, naming both
AdjacentOrderErrors(vs) ==
    FlattenSeq([i \in 1..(Len(vs) - 1) |->
                   IF NumericallyBefore(vs[i], vs[i + 1]) THEN <<>>
                   ELSE <<AscendingOrderError(vs[i], vs[i + 1])>>])

\* C26: in validate_manifest a version key of invalid semver format is
\* reported once and takes no part in the ordering check: each valid key is
\* compared only with the valid key right before it, each violation names
\* both keys, and there are as many ordering errors as adjacent pairs of
\* the valid keys that do not ascend; [a.b.c, 1.0.0] and [1.0.0, invalid,
\* 2.0.0] have no ordering error.
C26_InvalidKeysSkipped ==
    pc = "validate_manifest" =>
        /\ ret.exc = ""
        /\ \A i \in DOMAIN KeysOf(arg.file) :
              Count(ret.val, InvalidFormatError(KeysOf(arg.file)[i]))
                  = (IF ThreeDigitGroups(KeysOf(arg.file)[i].s) THEN 0 ELSE 1)
        /\ SelectSeq(ret.val, LAMBDA e : e.msg = "Versions not in ascending order: {prev_version} -> {version}")
              = AdjacentOrderErrors(SemverKeys(KeysOf(arg.file)))

\* the same for the manifests none of whose keys ends with a newline
C26_WithoutNewline ==
    (\A i \in DOMAIN KeysOf(arg.file) :
          KeysOf(arg.file)[i].s[Len(KeysOf(arg.file)[i].s)] # "\n")
        => C26_InvalidKeysSkipped

\* an invalid key between two valid keys that ascend: reported once, and no
\* ordering error
C26_InvalidBetween ==
    /\ pc = "validate_manifest"
    /\ KeysOf(arg.file) = <<v_1_0_0, StrV(<<"a", ".", "b", ".", "c">>), v_9_0_0>>
    /\ Count(ret.val, InvalidFormatError(StrV(<<"a", ".", "b", ".", "c">>))) = 1
    /\ OrderErrors(ret.val) = {}

\* an invalid key between two valid keys that descend: the ordering error
\* names the two valid keys
C26_ComparedAcross ==
    /\ pc = "validate_manifest"
    /\ KeysOf(arg.file) = <<v_10_0_0, StrV(<<"1", ".", "0">>), v_9_0_0>>
    /\ Count(ret.val, AscendingOrderError(v_10_0_0, v_9_0_0)) = 1
    /\ Cardinality(OrderErrors(ret.val)) = 1

\* ---- C27: the checks of every version ----

\* an error of the loop over the keys: format or ascending order
IsKeyError(e) ==
    e.msg \in {"Invalid semantic version format: {version}",
               "Versions not in ascending order: {prev_version} -> {version}"}

\* an error that compares an entry with the entry before it
IsChronoError(e) ==
    e.msg = "Version {version}: released_at is not in chronological order (earlier than {prev_version_for_date})"

\* the errors of the entry checks of a list of errors: shape, extra fields,
\* released_at and matchers
EntryErrors(errors) == SelectSeq(errors, LAMBDA e : ~IsKeyError(e) /\ ~IsChronoError(e))

\* what validate_manifest returns for a manifest that has version number i
\* alone
VersionAlone(i) ==
    validate_manifest(FileOk(ManifestDoc(<<VersionsArg.keys[i]>>, <<VersionsArg.vals[i]>>)),
                      arg.now)

\* C27: in validate_manifest the checks of a version run for every key of
\* 'versions' whatever failed before: an error in one version (invalid
\* semver key, ordering violation, entry that is no mapping, bad
\* released_at, missing or non-list matchers) never suppresses the
\* entry-shape, extra-field, released_at and matcher checks of another
\* version, and an entry under a key of invalid format has its own checks.
\* The errors of the entry checks are, version by version in file order,
\* those the version has in a manifest of its own.
C27_EveryVersionChecked ==
    pc = "validate_manifest" =>
        /\ ret.exc = ""
        /\ EntryErrors(ret.val)
              = FlattenSeq([i \in DOMAIN VersionsArg.keys |-> EntryErrors(VersionAlone(i).val)])

\* the same for the manifests in which no released_at is a date-only value
\* of the document parser
C27_WithoutDates ==
    (\A i \in DOMAIN VersionsArg.keys : ReleasedOf(i).ty # "date")
        => C27_EveryVersionChecked

\* an entry that is no mapping under the first key, an entry with an extra
\* field under a key of invalid format, and a third entry without matchers:
\* all three reported
C27_AfterFailures ==
    /\ pc = "validate_manifest"
    /\ Len(VersionsArg.keys) = 3
    /\ ~IsDict(VersionsArg.vals[1])
    /\ ~ThreeDigitGroups(VersionsArg.keys[2].s)
    /\ ret.exc = ""
    /\ \E n \in DOMAIN ret.val :
          /\ ret.val[n].msg = "Version {version}: extra fields not allowed: {fields}"
          /\ ret.val[n].args[1] = VersionsArg.keys[2]
    /\ Count(ret.val, Err("Version {version}: missing 'matchers'", <<VersionsArg.keys[3]>>)) = 1

\* ---- C28: the severity of every matcher ----

InvalidSeverityError(version, severity) ==
    Err("Version {version}: invalid severity '{severity}'", <<version, severity>>)

AllowedSeverities == {StrV(<<"g", "r", "e", "e", "n">>), StrV(<<"y", "e", "l", "l", "o", "w">>),
                      StrV(<<"r", "e", "d">>)}

AllowedTypes == {StrV(<<"d", "e", "f", "a", "u", "l", "t">>), StrV(<<"c", "o", "u", "n", "t", "r", "y">>),
                 StrV(<<"l", "o", "c", "a", "t", "i", "o", "n", "_", "h", "a", "s", "h">>)}

\* the error about the severity of matcher m, if it is a mapping whose
\* severity is missing or not allowed
SeverityErrorOf(version, m) ==
    IF IsDict(m) /\ Get(m, StrV(s_severity)) \notin AllowedSeverities
    THEN <<InvalidSeverityError(version, Get(m, StrV(s_severity)))>>
    ELSE <<>>

\* C28: for every matcher that is a mapping, validate_manifest checks the
\* severity against {green, yellow, red} whatever the matcher_type: a
\* matcher whose severity is missing or outside the set yields an 'invalid
\* severity' error whether its matcher_type is default, country,
\* location_hash, missing or not an allowed type, and whether or not its
\* matcher_value was rejected.
C28_SeverityAlwaysChecked ==
    pc = "validate_manifest" =>
        /\ ret.exc = ""
        /\ SelectSeq(ret.val, LAMBDA e : e.msg = "Version {version}: invalid severity '{severity}'")
              = FlattenSeq([j \in DOMAIN MatchersOf(1) |->
                               SeverityErrorOf(VersionsArg.keys[1], MatchersOf(1)[j])])

\* the same for the lists whose matchers all have an allowed matcher_type
C28_AllowedTypes ==
    (\A j \in DOMAIN MatchersOf(1) :
          IsDict(MatchersOf(1)[j]) => Get(MatchersOf(1)[j], StrV(s_matcher_type)) \in AllowedTypes)
        => C28_SeverityAlwaysChecked

\* a country matcher whose value was rejected and whose severity is not
\* allowed: both errors returned
C28_RejectedValue ==
    /\ pc = "validate_manifest"
    /\ Len(MatchersOf(1)) = 1
    /\ Get(MatchersOf(1)[1], StrV(s_matcher_type)) = StrV(s_country)
    /\ Get(MatchersOf(1)[1], StrV(s_matcher_value)) = StrV(<<"X", "X">>)
    /\ Count(ret.val, Err("Version {version}: invalid country code '{country}'",
                          <<v_1_0_0, StrV(<<"X", "X">>)>>)) = 1
    /\ Count(ret.val, InvalidSeverityError(v_1_0_0, StrV(<<"p", "u", "r", "p", "l", "e">>))) = 1


----------------------------------------------------------------------------
(***************************************************************************)
(* C29.  The three stages of main: orphans, missing files, validated       *)
(* files.                                                                  *)
(***************************************************************************)
\* the three sets of lines 269, 274 and 279
OrphanFiles == mem.actual_files \ mem.expected_set

MissingFiles == mem.expected_set \ mem.actual_files

ValidFiles == mem.actual_files \cap mem.expected_set

\* the stages main is in or past once the sets are computed
InStages == pc \in {"orphans", "missing", "validate", "report"}

\* the files each stage has taken so far
OrphansTaken == IF pc = "orphans" THEN OrphanFiles \ mem.todo ELSE OrphanFiles

MissingTaken ==
    CASE pc = "orphans" -> {}
      [] pc = "missing" -> MissingFiles \ mem.todo
      [] OTHER -> MissingFiles

ValidTaken ==
    CASE pc \in {"orphans", "missing"} -> {}
      [] pc = "validate" -> ValidFiles \ mem.todo
      [] OTHER -> ValidFiles

OrphanErrors == <<Err("Manifest file not defined in config.yml", <<>>)>>

MissingErrors ==
    <<Err("Missing manifest file (defined in config.yml but file not found)", <<>>)>>

ContentErrors(filename) == script_validate_manifest(fs.manifests[filename]).val

\* the list the stage of filename records for it: none for a validated
\* file without errors
StageErrors(filename) ==
    CASE filename \in OrphansTaken -> OrphanErrors
      [] filename \in MissingTaken -> MissingErrors
      [] filename \in ValidTaken -> ContentErrors(filename)
      [] OTHER -> <<>>

ErrorKeys == Range(mem.all_errors.keys)

\* C29: while main runs its three stages and when it reports, the orphan
\* set, the missing set and the set of validated files are pairwise
\* disjoint and cover actual | expected; the keys of all_errors are the
\* orphans and missing files taken so far and the present and expected
\* files validated so far with errors, each key once, and each key holds
\* the list its own stage recorded
C29_ThreeStages ==
    InStages =>
        /\ OrphanFiles \cap MissingFiles = {}
        /\ OrphanFiles \cap ValidFiles = {}
        /\ MissingFiles \cap ValidFiles = {}
        /\ OrphanFiles \cup MissingFiles \cup ValidFiles
              = mem.actual_files \cup mem.expected_set
        /\ ValidTaken \subseteq DOMAIN fs.manifests \cap mem.expected_files
        /\ \A i, j \in DOMAIN mem.all_errors.keys :
              mem.all_errors.keys[i] = mem.all_errors.keys[j] => i = j
        /\ ErrorKeys = OrphansTaken \cup MissingTaken
                          \cup {f \in ValidTaken : ContentErrors(f) # <<>>}
        /\ \A f \in ErrorKeys : Item(mem.all_errors, f) = StageErrors(f)

\* main is about to report with an orphan, a missing file and a validated
\* file with errors recorded
C29_Witness ==
    /\ pc = "report"
    /\ OrphanFiles # {} /\ MissingFiles # {}
    /\ \E f \in ValidFiles : f \in ErrorKeys
    /\ Len(mem.all_errors.keys) >= 3

\* C29: no step of a stage removes a key of all_errors or changes the list
\* of a key already there, and a step adds at most one key
C29_NoOverwrite ==
    [][(InStages /\ pc' # "exit") =>
          /\ Len(mem'.all_errors.keys) \in
                {Len(mem.all_errors.keys), Len(mem.all_errors.keys) + 1}
          /\ \A i \in DOMAIN mem.all_errors.keys :
                /\ mem'.all_errors.keys[i] = mem.all_errors.keys[i]
                /\ mem'.all_errors.vals[i] = mem.all_errors.vals[i]]_vars

----------------------------------------------------------------------------
(***************************************************************************)
(* C30.  The validate_manifest of validate_manifest.py against the one of  *)
(* validate.py.                                                            *)
(***************************************************************************)
\* both validators have been called on the file
BothCalled == pc = "script_validate_manifest"

\* the errors only the later validator has
IsAdditionalError(e) ==
    e.msg \in {"Version {version}: extra fields not allowed: {fields}",
               "Version {version}: matcher has extra fields not allowed: {fields}",
               "Version {version}: released_at is in the future",
               "Version {version}: released_at is older than 12 months",
               "Version {version}: released_at is not in chronological order (earlier than {prev_version_for_date})",
               "Version {version}: conflicting country matchers for '{country}' with different severities",
               "Version {version}: duplicate country matcher for '{country}'",
               "Version {version}: conflicting location hash matchers with different severities",
               "Version {version}: duplicate location hash matcher",
               "Version {version}: duplicate default matchers ({default_count} found)"}

\* earlier is later without some of its elements, the others in their order
RECURSIVE IsSubsequence(_, _)
IsSubsequence(earlier, later) ==
    IF earlier = <<>> THEN TRUE
    ELSE IF later = <<>> THEN FALSE
    ELSE IF Head(earlier) = Head(later) THEN IsSubsequence(Tail(earlier), Tail(later))
    ELSE IsSubsequence(earlier, Tail(later))

\* C30: for every manifest file and validation time for which the earlier
\* validate_manifest returns a list, every error of that list is reported
\* by the later validate_manifest as well, in the same relative order: the
\* later one returns a list when the earlier list has an error, the
\* earlier list is a subsequence of the later list, the later list is
\* empty only if the earlier is, and the errors the later list has beyond
\* the earlier ones are of the additional kinds only
C30_LaterRefinesEarlier ==
    (BothCalled /\ mem.exc = "") =>
        /\ mem.val # <<>> => ret.exc = ""
        /\ ret.exc = "" =>
              /\ IsSubsequence(mem.val, ret.val)
              /\ SelectSeq(ret.val, LAMBDA e : ~IsAdditionalError(e)) = mem.val
              /\ (ret.val = <<>> => mem.val = <<>>)

\* C30 for the files on which the later validator returns: the earlier one
\* returns as well, and its list is the later list without the additional
\* errors
C30_WhenLaterReturns ==
    (BothCalled /\ ret.exc = "") =>
        /\ mem.exc = ""
        /\ IsSubsequence(mem.val, ret.val)
        /\ SelectSeq(ret.val, LAMBDA e : ~IsAdditionalError(e)) = mem.val

\* where the earlier validator raises, the later one raises as well
C30_EarlierRaises ==
    (BothCalled /\ mem.exc # "") => ret.exc # ""

\* the earlier validator reports errors and the later one more, with
\* earlier errors before and after an additional one
C30_Interleaved ==
    /\ BothCalled
    /\ ret.exc = "" /\ mem.exc = ""
    /\ Len(mem.val) >= 2 /\ Len(ret.val) > Len(mem.val)
    /\ \E i, j, k \in DOMAIN ret.val :
          /\ i < j /\ j < k
          /\ ~IsAdditionalError(ret.val[i]) /\ IsAdditionalError(ret.val[j])
          /\ ~IsAdditionalError(ret.val[k])

\* the earlier validator returns errors for a file on which the later one
\* raises
C30_LaterRaises ==
    /\ BothCalled
    /\ mem.exc = "" /\ mem.val # <<>>
    /\ ret.exc # ""
====
